---- MODULE Spec2Model ----
(***************************************************************************)
(* A model of tunnelvision's client-side session protocol:                 *)
(*   - server/server.py: start (process supervisor), the output log relay, *)
(*     connect / auto_connect / wait_for_handshake (shared connection and  *)
(*     its listener), the handshake registry of server/state.py;           *)
(*   - plot.py: Axis.__init__, Axis._wait_for_handshake, Axis.imshow and   *)
(*     Axis._send_view.                                                    *)
(*                                                                         *)
(* Scheduling.  The notebook's main thread runs the asyncio event loop.    *)
(* Synchronous code (start, Axis.__init__, imshow) blocks that thread, so   *)
(* no task runs while mainpc # "idle".  A task runs from one await to the  *)
(* next as one action.  The server process and the log relay thread run    *)
(* concurrently with everything.                                           *)
(*                                                                         *)
(* Three specifications share the variables:                               *)
(*   Spec        start(), the process, the log relay, Axis construction    *)
(*   SpecConn    connect(), auto_connect(), the listener and the registry  *)
(*   SpecAxis    Axis construction, handshake wait, imshow and send tasks  *)
(***************************************************************************)
EXTENDS Integers, Sequences, FiniteSets, TLC

\* ------------------------------------------------------------------ bounds
MaxProcs == 3      \* server processes ever launched
MaxPorts == 2      \* distinct port numbers offered to start()
MaxTasks == 2      \* connect() / auto_connect() calls
MaxAxes  == 2      \* Axis objects constructed (Spec)
MaxViews == 1      \* Axis objects in use (SpecAxis)
MaxCalls == 2      \* imshow calls that schedule a send task

ProcIds == 1..MaxProcs
Ports   == 1..MaxPorts
None    == 0

VARIABLES
  \* --- server/state.py: State
  process,        \* state.process: None or the Popen of the tracked server
  port,           \* state.port
  websocket,      \* state.websocket: None or the shared connection
  handshakes,     \* state.handshakes: token -> future
  log_thread,     \* state.log_thread: None or the relay thread (by its process)
  handshake_task, \* state.handshake_task: None or the listener task
  \* --- the operating system's view
  procs,          \* process id -> "unborn" | "alive" | "exited"
  procOut,        \* what a process writes first on stdout
  sigterm,        \* processes that were sent SIGTERM (Popen.terminate)
  threads,        \* relay thread of a process: "none" | "running" | "finished" | "crashed"
  logcfg,         \* the logging options of config: log_stdout, log_stderr
  logfile,        \* the log file the relay of a process opened: "none" | "open" | "closed"
  \* --- the main thread inside start()
  mainpc,         \* "idle" | "terminate" | "wait" | "popen" | "select"
  start_port,     \* the port argument of the running start() call
  start_outcome,  \* "none" | "returned" | "TimeoutError": how the last start() ended
  start_banner,   \* the last start() read a line holding the banner
  start_launched, \* processes launched by the current / last start() call
  ctor,           \* the Axis whose __init__ is calling start(), or None
  \* --- asyncio tasks of server.py (task k: a connect() and, from auto_connect, a listener)
  ctask,          \* the task listener k waits for: "none" | "created" | "connecting" | "done" |
                  \* "failed" | "cancelled" for a connect(); "other" for a pending task
                  \* that is no connect()
  ltask,          \* listener task k: "none" | "created" | "waitconn" | "recv" | "ended" | "cancelled" | "failed_*"
  lcancel,        \* Task.cancel() was called on listener k and is not yet delivered
  lconn,          \* the connection listener k's pending recv() reads from
  conns,          \* connection opened by connect task k: "unopened" | "open" | "closed"
  lastMsg,        \* the message a listener handled last, and how (history)
  sent,           \* frames written by send_message, in order, with their connection
  futures,        \* token -> number of Future objects ever stored for it (history)
  send_calls,     \* the awaited send_message calls, in call order, with their outcome (history)
  \* --- plot.py: Axis objects and their tasks
  created,        \* Axis a was constructed
  uri,            \* the port in Axis a's uri
  handshake,      \* a.handshake: "none" | "pending" | "true" | "TimeoutError" | "error"
  hstask,         \* a's _wait_for_handshake task: "none" | "connecting" | "recv" | "closing" | "done" | "crashed"
  hsconn,         \* the connection of that task: "unopened" | "open" | "closed"
  hsElapsed,      \* config.timeout has elapsed since that task began: its timer fired
  hsMatched,      \* that task read a's own notification before the timeout elapsed (history)
  calls,          \* the imshow calls that scheduled a send task, in call order
  waiters,        \* send tasks suspended in `await self.handshake`, in arrival order
  wire,           \* every frame sent by a send task, in send order
  imshow_outcome, \* how the last imshow call ended
  imshow_input,   \* the value the last imshow call was given (history)
  axis_server,    \* the server process tracked when Axis a was constructed (history)
  \* --- experimental/plot.py: the exported Axis and its _send_array tasks
  self_port,      \* Axis.port: the port found by _get_first_available_port
  self_process,   \* Axis.process: None or the Popen of the last show()
  launch_port,    \* process id -> the --port argument it was launched with
  shows,          \* the show() calls that launched a server, in call order (history)
  show_outcome,   \* how the last show() call ended
  tasks,          \* the _send_array tasks, in creation order
  now             \* time.time(), in ticks of 0.1 s

serverVars == <<process, port, log_thread, procs, procOut, sigterm, threads, logcfg, logfile,
                mainpc, start_port, start_outcome, start_banner, start_launched>>
connVars == <<websocket, handshakes, handshake_task, ctask, ltask, lcancel, lconn,
              conns, lastMsg, sent, send_calls, futures>>
axisVars == <<axis_server, created, uri, handshake, hstask, hsconn, hsElapsed, hsMatched,
              calls, waiters, wire, imshow_outcome, imshow_input>>
axisTaskVars == <<hstask, hsconn, hsElapsed, hsMatched, calls, waiters, wire, imshow_outcome, imshow_input>>
ctorVars == <<ctor, created, handshake, uri, axis_server>>
expVars == <<self_port, self_process, launch_port, shows, show_outcome, tasks, now>>
vars == <<serverVars, ctor, connVars, axisVars, expVars>>

\* ------------------------------------------------------- server/state.py

\* State.is_running: a Popen is tracked and poll() is None.
is_running == process # None /\ procs[process] = "alive"

\* --------------------------------------------------- server/server.py: start

\* The first output of a launched server: the banner line, some other line,
\* or nothing within config.timeout.
Outputs == {"banner", "other", "silent"}

\* The logging options a configuration file can set (Config.__post_init__ copies
\* every key of the YAML file into the object): log_stdout is a path or a falsy
\* value; log_stderr is no attribute of Config unless the file sets it.
LogConfigs ==
  [log_stdout : BOOLEAN, log_stderr : {"unset", "falsy", "truthy"}]

\* No configuration file: log_stdout is the path under ~/.cache.
DefaultLogConfig == [log_stdout |-> TRUE, log_stderr |-> "unset"]

\* `config.log_stdout or config.log_stderr`: "AttributeError" when log_stdout is
\* falsy and the object has no log_stderr.
log_configured ==
  IF logcfg.log_stdout THEN "yes"
  ELSE IF logcfg.log_stderr = "unset" THEN "AttributeError"
  ELSE IF logcfg.log_stderr = "truthy" THEN "yes"
  ELSE "no"

\* Entry of start(): `if isinstance(state.process, subprocess.Popen)`.
StartEntry(p) ==
  /\ mainpc' = IF process # None THEN "terminate" ELSE "popen"
  /\ start_port' = p
  /\ start_outcome' = "none"
  /\ start_banner' = FALSE
  /\ start_launched' = 0

\* A caller invokes start(server_path, port, dist_path).
start(p) ==
  /\ mainpc = "idle"
  /\ \E q \in ProcIds : procs[q] = "unborn"
  /\ StartEntry(p)
  /\ UNCHANGED <<process, port, log_thread, procs, procOut, sigterm, threads, logcfg, logfile>>
  /\ UNCHANGED <<ctorVars, connVars, axisTaskVars>>
  /\ UNCHANGED expVars

\* state.process.terminate(): SIGTERM to the tracked process.
start_terminate ==
  /\ mainpc = "terminate"
  /\ sigterm' = sigterm \cup {process}
  /\ mainpc' = "wait"
  /\ UNCHANGED <<process, port, log_thread, procs, procOut, threads, logcfg, logfile,
                 start_port, start_outcome, start_banner, start_launched>>
  /\ UNCHANGED <<ctorVars, connVars, axisTaskVars>>
  /\ UNCHANGED expVars

\* A start() that launches without waiting for the old process to exit.
WaitReturns_NoWait == TRUE

\* state.process.wait() returns once the tracked process has exited.
WaitReturns == procs[process] = "exited"

start_wait ==
  /\ mainpc = "wait"
  /\ WaitReturns
  /\ mainpc' = "popen"
  /\ UNCHANGED <<process, port, log_thread, procs, procOut, sigterm, threads, logcfg, logfile,
                 start_port, start_outcome, start_banner, start_launched>>
  /\ UNCHANGED <<ctorVars, connVars, axisTaskVars>>
  /\ UNCHANGED expVars

\* The process id Popen hands out: the lowest one not yet used.
FreshProc == CHOOSE q \in ProcIds :
               procs[q] = "unborn" /\ \A r \in ProcIds : r < q => procs[r] # "unborn"

\* state.port = port; state.process = subprocess.Popen([...]).
start_Popen ==
  /\ mainpc = "popen"
  /\ port' = start_port
  /\ \E o \in Outputs :
       /\ procs' = [procs EXCEPT ![FreshProc] = "alive"]
       /\ procOut' = [procOut EXCEPT ![FreshProc] = o]
  /\ process' = FreshProc
  /\ start_launched' = start_launched + 1
  /\ mainpc' = "select"
  /\ UNCHANGED <<log_thread, sigterm, threads, logcfg, logfile, start_port, start_outcome, start_banner>>
  /\ UNCHANGED <<ctorVars, connVars, axisTaskVars>>
  /\ UNCHANGED expVars

\* select.select([stdout], [], [], config.timeout) reports stdout readable:
\* a line was written, or the pipe is at end of file (the process exited).
SelectReady == procOut[process] # "silent" \/ procs[process] = "exited"

\* `"--- tunnelvision ---" in line` for the line readline() returns.
BannerInLine == procOut[process] = "banner"

\* The outcome of start() after the select: "returned", "TimeoutError", or the
\* AttributeError of line 60.
StartResult ==
  IF ~SelectReady THEN "TimeoutError"
  ELSE IF BannerInLine /\ log_configured = "AttributeError" THEN "AttributeError"
  ELSE "returned"

\* plot.py, Axis.__init__ lines 45-51: the handshake future, the token, the uri.
AxisFields(a, p) ==
  /\ created' = [created EXCEPT ![a] = TRUE]
  /\ handshake' = [handshake EXCEPT ![a] = "pending"]
  /\ uri' = [uri EXCEPT ![a] = p]
  /\ axis_server' = [axis_server EXCEPT ![a] = process]

\* Lines 129-130 at the relay's start: the log file is opened when
\* config.log_stdout is truthy.
RelayOpens == IF logcfg.log_stdout THEN "open" ELSE "none"

\* select + readline + banner test + log thread start + return / raise.  When
\* Axis.__init__ made the call, a return lets the constructor run on (plot.py
\* lines 45-51) and a TimeoutError leaves it, so that no Axis is made.
start_select ==
  /\ mainpc = "select"
  /\ start_outcome' = StartResult
  /\ start_banner' = (SelectReady /\ BannerInLine)
  /\ IF SelectReady /\ BannerInLine /\ log_configured = "yes"
       THEN /\ threads' = [threads EXCEPT ![process] = "running"]
            /\ log_thread' = process
            /\ logfile' = [logfile EXCEPT ![process] = RelayOpens]
       ELSE UNCHANGED <<threads, log_thread, logfile>>
  /\ mainpc' = "idle"
  /\ ctor' = None
  /\ IF ctor # None /\ StartResult = "returned"
       THEN AxisFields(ctor, port)
       ELSE UNCHANGED <<created, handshake, uri, axis_server>>
  /\ UNCHANGED <<process, port, procs, procOut, sigterm, logcfg, start_port, start_launched>>
  /\ UNCHANGED <<connVars, axisTaskVars>>
  /\ UNCHANGED expVars

\* ------------------------------------- server/server.py: log_server_output

\* Lines 141-143 after the loop: stdout_file.flush(); process.wait();
\* stdout_file.close().  stdout_file is assigned only when config.log_stdout is
\* truthy (line 129); otherwise line 141 raises UnboundLocalError and the thread
\* ends with it.
RelayEnds(q) ==
  IF logfile[q] = "open"
    THEN /\ threads' = [threads EXCEPT ![q] = "finished"]
         /\ logfile' = [logfile EXCEPT ![q] = "closed"]
    ELSE /\ threads' = [threads EXCEPT ![q] = "crashed"]
         /\ UNCHANGED logfile

\* The relay loops while process.poll() is None, then flushes, waits, closes.
log_server_output(q) ==
  /\ threads[q] = "running"
  /\ procs[q] = "exited"
  /\ RelayEnds(q)
  /\ UNCHANGED <<process, port, log_thread, procs, procOut, sigterm, logcfg,
                 mainpc, start_port, start_outcome, start_banner, start_launched>>
  /\ UNCHANGED <<ctorVars, connVars, axisTaskVars>>
  /\ UNCHANGED expVars

\* ------------------------------------------------------------ environment

\* A server process exits: on SIGTERM, or on its own (crash, port in use).
ProcExit(q) ==
  /\ procs[q] = "alive"
  /\ procs' = [procs EXCEPT ![q] = "exited"]
  /\ UNCHANGED <<process, port, log_thread, procOut, sigterm, threads, logcfg, logfile,
                 mainpc, start_port, start_outcome, start_banner, start_launched>>
  /\ UNCHANGED <<ctorVars, connVars, axisTaskVars>>
  /\ UNCHANGED expVars

\* ------------------------------------------------------------------------
\* server/server.py: connect, auto_connect, wait_for_handshake
\* ------------------------------------------------------------------------
MaxTokens == 2     \* distinct handshake tokens seen on the shared connection

TaskIds == 1..MaxTasks
Tokens  == 1..MaxTokens


\* Inbound text frames, by what json.loads makes of them: not JSON at all, a JSON
\* value that is no object (a number), or an object with some of the two fields.
NoMsg == [json |-> "none", fields |-> {}, hash |-> None, connected |-> FALSE]

Msgs ==
  {[json |-> "invalid", fields |-> {}, hash |-> None, connected |-> FALSE],
   [json |-> "scalar", fields |-> {}, hash |-> None, connected |-> FALSE],
   [json |-> "object", fields |-> {}, hash |-> None, connected |-> FALSE]}
  \cup {[json |-> "object", fields |-> {"hash"}, hash |-> t, connected |-> FALSE] : t \in Tokens}
  \cup {[json |-> "object", fields |-> {"connected"}, hash |-> None, connected |-> b] : b \in BOOLEAN}
  \cup {[json |-> "object", fields |-> {"hash", "connected"}, hash |-> t, connected |-> b] :
          t \in Tokens, b \in BOOLEAN}

\* A future of the registry: no entry, pending, or resolved with a boolean.
FutResult(b) == IF b THEN "true" ELSE "false"

\* The lowest task id not yet used.
FreshTask == CHOOSE k \in TaskIds :
               ctask[k] = "none" /\ \A j \in TaskIds : j < k => ctask[j] # "none"

\* A task that has not finished (Task.done() is false).
ListenerPending(k) == ltask[k] \in {"created", "waitconn", "recv"}

\* An auto_connect() that leaves the stored listener running.
CancelListener_Missing(lc) == lc

\* state.handshake_task.cancel(): a request, delivered at the task's next step;
\* it does nothing to a task that is done.
CancelListener(lc) ==
  IF handshake_task # None /\ ListenerPending(handshake_task)
    THEN [lc EXCEPT ![handshake_task] = TRUE]
    ELSE lc

\* auto_connect(): create the connect task, cancel the stored listener, create and
\* store the new listener.  No await: one step.
auto_connect ==
  /\ mainpc = "idle"
  /\ \E k \in TaskIds : ctask[k] = "none"
  /\ ctask' = [ctask EXCEPT ![FreshTask] = "created"]
  /\ lcancel' = CancelListener(lcancel)
  /\ ltask' = [ltask EXCEPT ![FreshTask] = "created"]
  /\ handshake_task' = FreshTask
  /\ UNCHANGED <<websocket, handshakes, lconn, conns, lastMsg, sent, send_calls, futures>>
  /\ UNCHANGED <<serverVars, ctor, axisVars>>
  /\ UNCHANGED expVars

\* A caller schedules connect() on its own (asyncio.create_task(connect()) or await).
connect ==
  /\ mainpc = "idle"
  /\ \E k \in TaskIds : ctask[k] = "none"
  /\ ctask' = [ctask EXCEPT ![FreshTask] = "created"]
  /\ UNCHANGED <<websocket, handshakes, handshake_task, ltask, lcancel, lconn, conns, lastMsg, sent, send_calls, futures>>
  /\ UNCHANGED <<serverVars, ctor, axisVars>>
  /\ UNCHANGED expVars

\* connect() up to its await: `if state.process is None: raise`.
connect_begin(k) ==
  /\ mainpc = "idle"
  /\ ctask[k] = "created"
  /\ ctask' = [ctask EXCEPT ![k] = IF process = None THEN "failed" ELSE "connecting"]
  /\ UNCHANGED <<websocket, handshakes, handshake_task, ltask, lcancel, lconn, conns, lastMsg, sent, send_calls, futures>>
  /\ UNCHANGED <<serverVars, ctor, axisVars>>
  /\ UNCHANGED expVars

\* What connect() does to the shared connection once websockets.connect returned
\* connection k: `state.websocket = await websockets.connect(...)`.
StoreConnection(k) ==
  /\ conns' = [conns EXCEPT ![k] = "open"]
  /\ websocket' = k

\* websockets.connect(uri, open_timeout=state.timeout) returns.
connect_opened(k) ==
  /\ mainpc = "idle"
  /\ ctask[k] = "connecting"
  /\ StoreConnection(k)
  /\ ctask' = [ctask EXCEPT ![k] = "done"]
  /\ UNCHANGED <<handshakes, handshake_task, ltask, lcancel, lconn, lastMsg, sent, send_calls, futures>>
  /\ UNCHANGED <<serverVars, ctor, axisVars>>
  /\ UNCHANGED expVars

\* websockets.connect raises (refused, or open_timeout elapsed).
connect_refused(k) ==
  /\ mainpc = "idle"
  /\ ctask[k] = "connecting"
  /\ ctask' = [ctask EXCEPT ![k] = "failed"]
  /\ UNCHANGED <<websocket, handshakes, handshake_task, ltask, lcancel, lconn, conns, lastMsg, sent, send_calls, futures>>
  /\ UNCHANGED <<serverVars, ctor, axisVars>>
  /\ UNCHANGED expVars

\* A caller schedules wait_for_handshake(task) itself, with a task that is not a
\* connect(): it completes without storing a connection.  Only auto_connect
\* stores the listener in state.handshake_task.
wait_for_handshake_other ==
  /\ mainpc = "idle"
  /\ \E k \in TaskIds : ctask[k] = "none"
  /\ ctask' = [ctask EXCEPT ![FreshTask] = "other"]
  /\ ltask' = [ltask EXCEPT ![FreshTask] = "created"]
  /\ UNCHANGED <<websocket, handshakes, handshake_task, lcancel, lconn, conns, lastMsg, sent, send_calls, futures>>
  /\ UNCHANGED <<serverVars, ctor, axisVars>>
  /\ UNCHANGED expVars

\* That task returns.
other_done(k) ==
  /\ mainpc = "idle"
  /\ ctask[k] = "other"
  /\ ctask' = [ctask EXCEPT ![k] = "done"]
  /\ UNCHANGED <<websocket, handshakes, handshake_task, ltask, lcancel, lconn, conns, lastMsg, sent, send_calls, futures>>
  /\ UNCHANGED <<serverVars, ctor, axisVars>>
  /\ UNCHANGED expVars

\* `while not state.websocket.closed`: the loop goes on with a recv() on the
\* connection stored now, or ends.
LoopNext(k, cs, ws) ==
  /\ ltask' = [ltask EXCEPT ![k] = IF cs[ws] = "closed" THEN "ended" ELSE "recv"]
  /\ lconn' = [lconn EXCEPT ![k] = IF cs[ws] = "closed" THEN None ELSE ws]

\* wait_for_handshake(task) up to `await asyncio.wait_for(task, state.timeout)`.
wait_for_handshake_begin(k) ==
  /\ mainpc = "idle"
  /\ ltask[k] = "created"
  /\ ~lcancel[k]
  /\ ltask' = [ltask EXCEPT ![k] = IF process = None THEN "failed_notrunning" ELSE "waitconn"]
  /\ UNCHANGED <<websocket, handshakes, handshake_task, ctask, lcancel, lconn, conns, lastMsg, sent, send_calls, futures>>
  /\ UNCHANGED <<serverVars, ctor, axisVars>>
  /\ UNCHANGED expVars

\* A listener that goes on without waiting for its task.
TaskSettled_NoWait(k) == TRUE

\* `await asyncio.wait_for(task, ...)` resumes once the task has returned or raised.
TaskSettled(k) == ctask[k] \in {"done", "failed"}

\* wait_for returns (the connect task is done) or raises the connect task's error;
\* then the isinstance check, then the loop's first test.
wait_for_handshake_connected(k) ==
  /\ mainpc = "idle"
  /\ ltask[k] = "waitconn"
  /\ ~lcancel[k]
  /\ TaskSettled(k)
  /\ IF ctask[k] = "failed"
       THEN /\ ltask' = [ltask EXCEPT ![k] = "failed_connect"]
            /\ UNCHANGED lconn
       ELSE IF websocket = None
         THEN /\ ltask' = [ltask EXCEPT ![k] = "failed_notconnected"]
              /\ UNCHANGED lconn
         ELSE LoopNext(k, conns, websocket)
  /\ UNCHANGED <<websocket, handshakes, handshake_task, ctask, lcancel, conns, lastMsg, sent, send_calls, futures>>
  /\ UNCHANGED <<serverVars, ctor, axisVars>>
  /\ UNCHANGED expVars

\* state.timeout elapses first: wait_for cancels the connect task and raises TimeoutError.
wait_for_handshake_timeout(k) ==
  /\ mainpc = "idle"
  /\ ltask[k] = "waitconn"
  /\ ~lcancel[k]
  /\ ctask[k] \in {"created", "connecting", "other"}
  /\ ctask' = [ctask EXCEPT ![k] = "cancelled"]
  /\ ltask' = [ltask EXCEPT ![k] = "failed_timeout"]
  /\ UNCHANGED <<websocket, handshakes, handshake_task, lcancel, lconn, conns, lastMsg, sent, send_calls, futures>>
  /\ UNCHANGED <<serverVars, ctor, axisVars>>
  /\ UNCHANGED expVars

\* Lines 110-111: a Future is made and stored for the message's token when the
\* registry has no entry for it.
Creates(hs, m) ==
  m.json = "object" /\ {"hash", "connected"} \subseteq m.fields /\ hs[m.hash] = "absent"

\* A listener that stores a new future for every notification: the last value wins.
Resolve_Replace(hs, m) ==
  IF m.json = "object" /\ {"hash", "connected"} \subseteq m.fields
    THEN [hs EXCEPT ![m.hash] = FutResult(m.connected)]
    ELSE hs

\* A listener that resolves registered tokens only and drops the others.
Resolve_OnlyRegistered(hs, m) ==
  IF m.json = "object" /\ {"hash", "connected"} \subseteq m.fields /\ hs[m.hash] = "pending"
    THEN [hs EXCEPT ![m.hash] = FutResult(m.connected)]
    ELSE hs

\* Lines 109-113 on a parsed object: register the token if new, then set_result.
\* set_result on a future that is already resolved raises InvalidStateError, which
\* line 115 swallows: the future keeps its first result.
Resolve(hs, m) ==
  IF m.json = "object" /\ {"hash", "connected"} \subseteq m.fields
    THEN IF hs[m.hash] \in {"absent", "pending"}
           THEN [hs EXCEPT ![m.hash] = FutResult(m.connected)]
           ELSE hs
    ELSE hs

\* Whether handling m raises into `except Exception: pass`: json.loads fails,
\* `"hash" in msg` fails on a number, or set_result finds the future resolved.
Raises(hs, m) ==
  \/ m.json \in {"invalid", "scalar"}
  \/ /\ m.json = "object" /\ {"hash", "connected"} \subseteq m.fields
     /\ hs[m.hash] \in {"true", "false"}

\* A loop without the try/except: an error in one message ends the task.
AfterMessage_NoCatch(k, raised) ==
  IF raised
    THEN /\ ltask' = [ltask EXCEPT ![k] = "failed_message"]
         /\ lconn' = [lconn EXCEPT ![k] = None]
    ELSE LoopNext(k, conns, websocket)

\* Lines 115-116 and the loop test: whether or not the message raised, the loop
\* goes on.
AfterMessage(k, raised) == LoopNext(k, conns, websocket)

\* The future of m's token as the listener finds it.
Was(hs, m) == IF m.json = "object" /\ "hash" \in m.fields THEN hs[m.hash] ELSE "n/a"

\* One pass of the loop on a received message.
wait_for_handshake_recv(k, m) ==
  /\ mainpc = "idle"
  /\ ltask[k] = "recv"
  /\ ~lcancel[k]
  /\ conns[lconn[k]] = "open"
  /\ handshakes' = Resolve(handshakes, m)
  /\ futures' = IF Creates(handshakes, m)
                  THEN [futures EXCEPT ![m.hash] = @ + 1] ELSE futures
  /\ lastMsg' = [msg |-> m, by |-> k, was |-> Was(handshakes, m),
                 raised |-> Raises(handshakes, m),
                 afterErr |-> (lastMsg.by = k /\ lastMsg.raised)]
  /\ AfterMessage(k, Raises(handshakes, m))
  /\ UNCHANGED <<websocket, handshake_task, ctask, lcancel, conns, sent, send_calls>>
  /\ UNCHANGED <<serverVars, ctor, axisVars>>
  /\ UNCHANGED expVars

\* recv() raises ConnectionClosed: swallowed, and the loop test decides.
wait_for_handshake_closed(k) ==
  /\ mainpc = "idle"
  /\ ltask[k] = "recv"
  /\ ~lcancel[k]
  /\ conns[lconn[k]] = "closed"
  /\ LoopNext(k, conns, websocket)
  /\ UNCHANGED <<websocket, handshakes, handshake_task, ctask, lcancel, conns, lastMsg, sent, send_calls, futures>>
  /\ UNCHANGED <<serverVars, ctor, axisVars>>
  /\ UNCHANGED expVars

\* The cancellation is delivered: CancelledError is thrown into the coroutine at its
\* await.  It is no Exception, so line 115 does not catch it; inside wait_for it
\* also cancels the connect task.
wait_for_handshake_cancelled(k) ==
  /\ mainpc = "idle"
  /\ lcancel[k]
  /\ ListenerPending(k)
  /\ ltask' = [ltask EXCEPT ![k] = "cancelled"]
  /\ lcancel' = [lcancel EXCEPT ![k] = FALSE]
  /\ lconn' = [lconn EXCEPT ![k] = None]
  /\ ctask' = [ctask EXCEPT ![k] = IF ltask[k] = "waitconn" /\ @ \in {"created", "connecting", "other"}
                                     THEN "cancelled" ELSE @]
  /\ UNCHANGED <<websocket, handshakes, handshake_task, conns, lastMsg, sent, send_calls, futures>>
  /\ UNCHANGED <<serverVars, ctor, axisVars>>
  /\ UNCHANGED expVars

\* register(token): a session registers its token before the notification arrives.
register(t) ==
  /\ mainpc = "idle"
  /\ handshakes[t] = "absent"
  /\ handshakes' = [handshakes EXCEPT ![t] = "pending"]
  /\ futures' = [futures EXCEPT ![t] = @ + 1]
  /\ UNCHANGED <<websocket, handshake_task, ctask, ltask, lcancel, lconn, conns, lastMsg, sent, send_calls>>
  /\ UNCHANGED <<serverVars, ctor, axisVars>>
  /\ UNCHANGED expVars

\* ---- send_message

MaxSends == 3      \* awaited send_message calls

\* The messages handed to send_message: a text frame and a binary frame.
Frames == {[kind |-> "text", body |-> <<123, 125>>], [kind |-> "binary", body |-> <<0, 255>>]}

\* The shared connection's state as send_message finds it.
SocketState == IF websocket = None THEN "none" ELSE conns[websocket]

\* A send_message that tests only that a connection is stored.
SendAllowed_StoredOnly == websocket # None

\* `isinstance(state.websocket, WebSocketClientProtocol) and state.websocket.open`
SendAllowed == websocket # None /\ conns[websocket] = "open"

\* await send_message(message): one awaited call, from its test to its return or raise.
send_message(f) ==
  /\ mainpc = "idle"
  /\ Len(send_calls) < MaxSends
  /\ send_calls' = Append(send_calls,
       [frame |-> f, ws |-> websocket, state |-> SocketState,
        outcome |-> IF SendAllowed THEN "sent" ELSE "RuntimeError"])
  /\ sent' = IF SendAllowed THEN Append(sent, [conn |-> websocket, frame |-> f]) ELSE sent
  /\ UNCHANGED <<websocket, handshakes, handshake_task, ctask, ltask, lcancel, lconn,
                 conns, lastMsg, futures>>
  /\ UNCHANGED <<serverVars, ctor, axisVars>>
  /\ UNCHANGED expVars

\* The peer (or the network) closes a connection.
ConnClosed(k) ==
  /\ conns[k] = "open"
  /\ conns' = [conns EXCEPT ![k] = "closed"]
  /\ UNCHANGED <<websocket, handshakes, handshake_task, ctask, ltask, lcancel, lconn, lastMsg, sent, send_calls, futures>>
  /\ UNCHANGED <<serverVars, ctor, axisVars>>
  /\ UNCHANGED expVars

\* ------------------------------------------------- server/server.py: _close

\* _close(), registered with atexit: terminate() the tracked process, if any.
_close ==
  /\ mainpc = "idle"
  /\ IF process # None
       THEN /\ sigterm' = sigterm \cup {process}
            /\ mainpc' = "close_wait"
       ELSE /\ mainpc' = "close_join"
            /\ UNCHANGED sigterm
  /\ UNCHANGED <<process, port, log_thread, procs, procOut, threads, logcfg, logfile,
                 start_port, start_outcome, start_banner, start_launched>>
  /\ UNCHANGED <<ctorVars, connVars, axisTaskVars>>
  /\ UNCHANGED expVars

\* state.process.wait() returns.
_close_wait ==
  /\ mainpc = "close_wait"
  /\ procs[process] = "exited"
  /\ mainpc' = "close_join"
  /\ UNCHANGED <<process, port, log_thread, procs, procOut, sigterm, threads, logcfg, logfile,
                 start_port, start_outcome, start_banner, start_launched>>
  /\ UNCHANGED <<ctorVars, connVars, axisTaskVars>>
  /\ UNCHANGED expVars

\* What the call `state.websocket.close()` of line 190 does to the connections:
\* close is a coroutine function, the call makes a coroutine object that is never
\* awaited, and nothing is sent or closed.
CloseCall(cs) == cs

\* join() of a live relay thread returns (or the thread was not alive); then the
\* close() call on the shared connection and cancel() of a listener not yet done.
_close_join ==
  /\ mainpc = "close_join"
  /\ log_thread # None => threads[log_thread] # "running"
  /\ conns' = CloseCall(conns)
  /\ lcancel' = CancelListener(lcancel)
  /\ mainpc' = "closed"
  /\ UNCHANGED <<process, port, log_thread, procs, procOut, sigterm, threads, logcfg, logfile,
                 start_port, start_outcome, start_banner, start_launched>>
  /\ UNCHANGED <<websocket, handshakes, handshake_task, ctask, ltask, lconn, lastMsg,
                 sent, send_calls, futures>>
  /\ UNCHANGED <<ctor, axisVars>>
  /\ UNCHANGED expVars

\* ------------------------------------------------------------------------
\* plot.py: Axis
\* ------------------------------------------------------------------------
Axes == 1..MaxAxes



\* self.hash = uuid(): Axis a's token is token a; as text it is two ASCII characters.
HashText(a) == <<104, 48 + a>>

\* str.encode(): UTF-8, one byte per ASCII character.
Encode(s) == [i \in DOMAIN s |-> s[i] % 128]

\* ---- numpy arrays: what imshow reads of them
AllowedDTypes == {"int8", "int16", "int32", "uint8", "uint16", "uint32", "float32"}

ItemSize(dt) ==
  CASE dt \in {"int8", "uint8", "bool"} -> 1
    [] dt \in {"int16", "uint16", "float16"} -> 2
    [] dt \in {"int32", "uint32", "float32"} -> 4
    [] OTHER -> 8

\* The bytes of integer v in n bytes, little endian, two's complement.
RECURSIVE LEBytes(_, _)
LEBytes(v, n) == IF n = 0 THEN <<>> ELSE <<v % 256>> \o LEBytes(v \div 256, n - 1)

RECURSIVE Concat(_)
Concat(ss) == IF ss = <<>> THEN <<>> ELSE Head(ss) \o Concat(Tail(ss))

\* ndarray.tobytes(): the elements in row-major order, each in its item size.
tobytes(x) == Concat([i \in DOMAIN x.data |-> LEBytes(x.data[i], ItemSize(x.dtype))])

\* x.ndim
ndim(x) == Len(x.shape)

\* The values handed to imshow: two valid arrays, and one value for each check.
ValidArrays ==
  {[ndarray |-> TRUE, dtype |-> "uint8", shape |-> <<1, 1, 1, 2, 1>>, data |-> <<7, 255>>],
   [ndarray |-> TRUE, dtype |-> "int16", shape |-> <<1, 1, 2, 1, 1>>, data |-> <<-2, 258>>]}

InvalidInputs ==
  {[ndarray |-> FALSE, dtype |-> "uint8", shape |-> <<1, 1, 1, 2, 1>>, data |-> <<7, 255>>],
   [ndarray |-> TRUE, dtype |-> "float64", shape |-> <<1, 1, 1, 1>>, data |-> <<0>>],
   [ndarray |-> TRUE, dtype |-> "float16", shape |-> <<1, 1, 1, 1, 1>>, data |-> <<0>>],
   [ndarray |-> TRUE, dtype |-> "uint8", shape |-> <<1, 1, 2, 1>>, data |-> <<7, 255>>],
   [ndarray |-> TRUE, dtype |-> "uint8", shape |-> <<1, 1, 1, 1, 2, 1>>, data |-> <<7, 255>>]}

Inputs == ValidArrays \cup InvalidInputs

\* Element types of numpy arrays, as dtype names.
DTypes == {"bool", "int8", "int16", "int32", "int64", "uint8", "uint16", "uint32",
           "uint64", "float16", "float32", "float64", "complex64"}

\* dtype.kind: boolean, signed integer, unsigned integer, floating point, complex.
Kind(dt) ==
  CASE dt = "bool" -> "b"
    [] dt \in {"int8", "int16", "int32", "int64"} -> "i"
    [] dt \in {"uint8", "uint16", "uint32", "uint64"} -> "u"
    [] dt \in {"float16", "float32", "float64"} -> "f"
    [] OTHER -> "c"

\* Width of an element in bits.
Bits(dt) == 8 * ItemSize(dt)

\* What the message of line 71 says is supported: "=< 32 bit (unsigned)
\* integers/floating points".
SupportedByMessage(dt) == Kind(dt) \in {"i", "u", "f"} /\ Bits(dt) <= 32

\* One array of each element type in rank 5, and in rank 4.
ProbeArrays ==
  {[ndarray |-> TRUE, dtype |-> dt, shape |-> sh, data |-> <<0>>] :
     dt \in DTypes, sh \in {<<1, 1, 1, 1, 1>>, <<1, 1, 1, 1>>}}

\* No imshow call yet.
NoInput == [ndarray |-> FALSE, dtype |-> "", shape |-> <<>>, data |-> <<>>]

\* ---- frames
NoHeader == [hash |-> <<>>, shape |-> <<>>, dtype |-> ""]

\* json.dumps(msg) of lines 148-156 (config and metadata are passed through).
HeaderFrame(i, a, x) ==
  [conn |-> i, kind |-> "header",
   header |-> [hash |-> HashText(a), shape |-> x.shape, dtype |-> x.dtype],
   bytes |-> <<>>]

\* A binary frame without the token in front.
BinaryFrame_NoToken(i, a, x) ==
  [conn |-> i, kind |-> "binary", header |-> NoHeader, bytes |-> tobytes(x)]

\* self.hash.encode() + x.tobytes()
BinaryFrame(i, a, x) ==
  [conn |-> i, kind |-> "binary", header |-> NoHeader,
   bytes |-> Encode(HashText(a)) \o tobytes(x)]

CallIds == 1..Len(calls)

Failed(f) == f \in {"TimeoutError", "error"}

\* ---- Axis.imshow

\* An imshow without the rank check.
ImshowCheck_NoRank(a, x) ==
  IF ~x.ndarray THEN "TypeError"
  ELSE IF x.dtype \notin AllowedDTypes THEN "TypeError"
  ELSE IF procs[process] # "alive" THEN "RuntimeError_server"
  ELSE IF Failed(handshake[a]) THEN "RuntimeError_handshake"
  ELSE "scheduled"

\* The checks of lines 67-80, in order; "scheduled" when all pass.
ImshowCheck_NoPoll(a, x) ==
  IF ~x.ndarray THEN "TypeError"
  ELSE IF x.dtype \notin AllowedDTypes THEN "TypeError"
  ELSE IF ndim(x) # 5 THEN "ValueError"
  ELSE IF Failed(handshake[a]) THEN "RuntimeError_handshake"
  ELSE "scheduled"

\* imshow lines 67-80, in order: isinstance, dtype, ndim, state.process.poll(),
\* the handshake future.
ImshowCheck(a, x) ==
  IF ~x.ndarray THEN "TypeError"
  ELSE IF x.dtype \notin AllowedDTypes THEN "TypeError"
  ELSE IF ndim(x) # 5 THEN "ValueError"
  ELSE IF procs[process] # "alive" THEN "RuntimeError_server"
  ELSE IF Failed(handshake[a]) THEN "RuntimeError_handshake"
  ELSE "scheduled"

\* The send task is created by asyncio.create_task and runs to its first await,
\* `async with websockets.connect(uri)`: st = "connecting".
imshow(a, x) ==
  /\ mainpc = "idle"
  /\ created[a]
  /\ imshow_outcome' = ImshowCheck(a, x)
  /\ imshow_input' = x
  /\ IF ImshowCheck(a, x) = "scheduled"
       THEN /\ Len(calls) < MaxCalls
            /\ calls' = Append(calls, [axis |-> a, x |-> x, st |-> "connecting",
                                       conn |-> "unopened",
                                       early |-> (handshake[a] = "pending")])
       ELSE UNCHANGED calls
  /\ UNCHANGED <<axis_server, created, uri, handshake, hstask, hsconn, hsElapsed, hsMatched, waiters, wire>>
  /\ UNCHANGED <<serverVars, ctor, connVars>>
  /\ UNCHANGED expVars

\* ---- Axis._send_view (send task of call i)

\* Future.set_exception: allowed on a pending future only.
CanSet(a) == handshake[a] = "pending"

\* `except Exception as e: self.handshake.set_exception(e); return False`.  On a
\* future that is done, set_exception raises InvalidStateError out of the handler
\* and the task ends with that exception.  Leaving `async with` closes the
\* connection.
SendExcept(i) ==
  LET a == calls[i].axis IN
  /\ calls' = [calls EXCEPT ![i].st = IF CanSet(a) THEN "returned_false" ELSE "crashed",
                            ![i].conn = "closed"]
  /\ handshake' = IF CanSet(a) THEN [handshake EXCEPT ![a] = "error"] ELSE handshake
  /\ UNCHANGED wire

\* A send task that does not wait for the handshake.
AwaitHandshake_Skipped(a) == "return"

\* `await self.handshake`: suspends on a pending future, returns the result of a
\* resolved one, raises the exception of a failed one.
AwaitHandshake(a) ==
  IF handshake[a] = "pending" THEN "suspend"
  ELSE IF handshake[a] = "true" THEN "return"
  ELSE "raise"

\* From `await self.handshake` to the await of the header send (lines 145-158).
SendHeader(i, open) ==
  LET a == calls[i].axis IN
  IF AwaitHandshake(a) = "return" /\ open
    THEN /\ wire' = Append(wire, HeaderFrame(i, a, calls[i].x))
         /\ calls' = [calls EXCEPT ![i].st = "header_sent", ![i].conn = "open"]
         /\ UNCHANGED handshake
    ELSE SendExcept(i)

\* The connection opens; the coroutine suspends in `await self.handshake` if the
\* future is pending and runs on to the header send if it is done.
_send_view_connected(i) ==
  /\ mainpc = "idle"
  /\ calls[i].st = "connecting"
  /\ IF AwaitHandshake(calls[i].axis) = "suspend"
       THEN /\ calls' = [calls EXCEPT ![i].st = "await_hs", ![i].conn = "open"]
            /\ waiters' = Append(waiters, i)
            /\ UNCHANGED <<handshake, wire>>
       ELSE /\ SendHeader(i, TRUE)
            /\ UNCHANGED waiters
  /\ UNCHANGED <<axis_server, created, uri, hstask, hsconn, hsElapsed, hsMatched, imshow_outcome, imshow_input>>
  /\ UNCHANGED <<serverVars, ctor, connVars>>
  /\ UNCHANGED expVars

\* websockets.connect raises: outside the try, the task ends with the exception.
_send_view_refused(i) ==
  /\ mainpc = "idle"
  /\ calls[i].st = "connecting"
  /\ calls' = [calls EXCEPT ![i].st = "crashed"]
  /\ UNCHANGED <<axis_server, created, uri, handshake, hstask, hsconn, hsElapsed, hsMatched,
                 waiters, wire, imshow_outcome, imshow_input>>
  /\ UNCHANGED <<serverVars, ctor, connVars>>
  /\ UNCHANGED expVars

Without(s, i) == SelectSeq(s, LAMBDA j : j # i)

\* Position of i in the waiters.
WaitPos(i) == CHOOSE n \in DOMAIN waiters : waiters[n] = i

\* The future is done: its waiters resume in the order they began to wait.
_send_view_resume(i) ==
  /\ mainpc = "idle"
  /\ calls[i].st = "await_hs"
  /\ handshake[calls[i].axis] # "pending"
  /\ \A n \in 1..(WaitPos(i) - 1) : calls[waiters[n]].axis # calls[i].axis
  /\ waiters' = Without(waiters, i)
  /\ SendHeader(i, calls[i].conn = "open")
  /\ UNCHANGED <<axis_server, created, uri, hstask, hsconn, hsElapsed, hsMatched, imshow_outcome, imshow_input>>
  /\ UNCHANGED <<serverVars, ctor, connVars>>
  /\ UNCHANGED expVars

\* `await websocket.send(self.hash.encode() + x.tobytes())`
_send_view_binary(i) ==
  /\ mainpc = "idle"
  /\ calls[i].st = "header_sent"
  /\ IF calls[i].conn = "open"
       THEN /\ wire' = Append(wire, BinaryFrame(i, calls[i].axis, calls[i].x))
            /\ calls' = [calls EXCEPT ![i].st = "binary_sent"]
            /\ UNCHANGED handshake
       ELSE SendExcept(i)
  /\ UNCHANGED <<axis_server, created, uri, hstask, hsconn, hsElapsed, hsMatched, waiters, imshow_outcome, imshow_input>>
  /\ UNCHANGED <<serverVars, ctor, connVars>>
  /\ UNCHANGED expVars

\* `await websocket.close(...)`; return True.
_send_view_close(i) ==
  /\ mainpc = "idle"
  /\ calls[i].st = "binary_sent"
  /\ calls' = [calls EXCEPT ![i].st = "returned_true", ![i].conn = "closed"]
  /\ UNCHANGED <<axis_server, created, uri, handshake, hstask, hsconn, hsElapsed, hsMatched,
                 waiters, wire, imshow_outcome, imshow_input>>
  /\ UNCHANGED <<serverVars, ctor, connVars>>
  /\ UNCHANGED expVars

\* The peer closes the connection of send task i while a send is still to come.
SendConnClosed(i) ==
  /\ calls[i].conn = "open"
  /\ calls[i].st \in {"await_hs", "header_sent"}
  /\ calls' = [calls EXCEPT ![i].conn = "closed"]
  /\ UNCHANGED <<axis_server, created, uri, handshake, hstask, hsconn, hsElapsed, hsMatched,
                 waiters, wire, imshow_outcome, imshow_input>>
  /\ UNCHANGED <<serverVars, ctor, connVars>>
  /\ UNCHANGED expVars

\* ---- Axis._wait_for_handshake (handshake task of Axis a)

HsRunning(a) == hstask[a] \in {"connecting", "recv", "closing"}

\* json.loads(msg) or msg.get(...) raises: not JSON, or JSON that is no object.
HsRaises(m) == m.json \in {"invalid", "scalar"}

\* msg.get("hash", None) == self.hash and msg.get("connected", False)
HsMatch(a, m) ==
  /\ m.json = "object"
  /\ "hash" \in m.fields /\ m.hash = a
  /\ "connected" \in m.fields /\ m.connected

\* A handshake future shared by all Axes: one Axis's failure fails every pending one.
HsOuterExcept_Shared(a, e) ==
  /\ handshake' = [b \in Axes |-> IF handshake[b] = "pending" THEN e ELSE handshake[b]]
  /\ hstask' = [hstask EXCEPT ![a] = IF CanSet(a) THEN "done" ELSE "crashed"]
  /\ hsconn' = [hsconn EXCEPT ![a] = IF @ = "open" THEN "closed" ELSE @]

\* The handler of line 128: `self.handshake.set_exception(e); print(...)`.  On a
\* future already done, set_exception raises and the task ends with that error.
HsOuterExcept(a, e) ==
  /\ handshake' = IF CanSet(a) THEN [handshake EXCEPT ![a] = e] ELSE handshake
  /\ hstask' = [hstask EXCEPT ![a] = IF CanSet(a) THEN "done" ELSE "crashed"]
  /\ hsconn' = [hsconn EXCEPT ![a] = IF @ = "open" THEN "closed" ELSE @]

\* The handler of line 123 inside the loop: `self.handshake.set_exception(e)`, and
\* the loop goes on.  On a future already done the InvalidStateError leaves the
\* loop and reaches the handler of line 128, which raises it again.
HsInnerExcept(a) ==
  IF CanSet(a)
    THEN /\ handshake' = [handshake EXCEPT ![a] = "error"]
         /\ UNCHANGED <<hstask, hsconn>>
    ELSE HsOuterExcept(a, "error")

\* The task is scheduled (when the Axis's viewport is displayed) and runs up to
\* `async with websockets.connect(uri)` under wait_for(..., config.timeout).
_wait_for_handshake(a) ==
  /\ mainpc = "idle"
  /\ created[a]
  /\ hstask[a] = "none"
  /\ hstask' = [hstask EXCEPT ![a] = "connecting"]
  /\ UNCHANGED <<axis_server, created, uri, handshake, hsconn, hsElapsed, hsMatched,
                 calls, waiters, wire, imshow_outcome, imshow_input>>
  /\ UNCHANGED <<serverVars, ctor, connVars>>
  /\ UNCHANGED expVars

_handshake_connected(a) ==
  /\ mainpc = "idle"
  /\ hstask[a] = "connecting"
  /\ hstask' = [hstask EXCEPT ![a] = "recv"]
  /\ hsconn' = [hsconn EXCEPT ![a] = "open"]
  /\ UNCHANGED <<axis_server, created, uri, handshake, hsElapsed, hsMatched,
                 calls, waiters, wire, imshow_outcome, imshow_input>>
  /\ UNCHANGED <<serverVars, ctor, connVars>>
  /\ UNCHANGED expVars

\* websockets.connect raises: the error leaves _handshake and wait_for.
_handshake_refused(a) ==
  /\ mainpc = "idle"
  /\ hstask[a] = "connecting"
  /\ HsOuterExcept(a, "error")
  /\ UNCHANGED <<axis_server, created, uri, hsElapsed, hsMatched, calls, waiters, wire, imshow_outcome, imshow_input>>
  /\ UNCHANGED <<serverVars, ctor, connVars>>
  /\ UNCHANGED expVars

\* One pass of the loop of lines 113-124 on a received message.
_handshake_recv(a, m) ==
  /\ mainpc = "idle"
  /\ hstask[a] = "recv"
  /\ hsconn[a] = "open"
  /\ IF HsRaises(m) THEN HsInnerExcept(a)
     ELSE IF HsMatch(a, m)
       THEN IF CanSet(a)
              THEN /\ handshake' = [handshake EXCEPT ![a] = "true"]
                   /\ hstask' = [hstask EXCEPT ![a] = "closing"]
                   /\ UNCHANGED hsconn
              ELSE HsInnerExcept(a)
       ELSE UNCHANGED <<handshake, hstask, hsconn>>
  /\ hsMatched' = [hsMatched EXCEPT ![a] = @ \/ (HsMatch(a, m) /\ ~hsElapsed[a])]
  /\ UNCHANGED <<axis_server, created, uri, hsElapsed, calls, waiters, wire, imshow_outcome, imshow_input>>
  /\ UNCHANGED <<serverVars, ctor, connVars>>
  /\ UNCHANGED expVars

\* websocket.recv() raises ConnectionClosed.
_handshake_recv_error(a) ==
  /\ mainpc = "idle"
  /\ hstask[a] = "recv"
  /\ hsconn[a] = "closed"
  /\ HsInnerExcept(a)
  /\ UNCHANGED <<axis_server, created, uri, hsElapsed, hsMatched, calls, waiters, wire, imshow_outcome, imshow_input>>
  /\ UNCHANGED <<serverVars, ctor, connVars>>
  /\ UNCHANGED expVars

\* `await websocket.close(...)` returns; break; the task returns.
_handshake_close(a) ==
  /\ mainpc = "idle"
  /\ hstask[a] = "closing"
  /\ hstask' = [hstask EXCEPT ![a] = "done"]
  /\ hsconn' = [hsconn EXCEPT ![a] = "closed"]
  /\ UNCHANGED <<axis_server, created, uri, handshake, hsElapsed, hsMatched,
                 calls, waiters, wire, imshow_outcome, imshow_input>>
  /\ UNCHANGED <<serverVars, ctor, connVars>>
  /\ UNCHANGED expVars

\* config.timeout seconds have passed since wait_for began and its timer fires:
\* _handshake is cancelled and TimeoutError reaches line 128.
_handshake_timeout(a) ==
  /\ mainpc = "idle"
  /\ HsRunning(a)
  /\ hsElapsed' = [hsElapsed EXCEPT ![a] = TRUE]
  /\ HsOuterExcept(a, "TimeoutError")
  /\ UNCHANGED <<axis_server, created, uri, hsMatched, calls, waiters, wire, imshow_outcome, imshow_input>>
  /\ UNCHANGED <<serverVars, ctor, connVars>>
  /\ UNCHANGED expVars

\* The peer closes the handshake task's connection.
HsConnClosed(a) ==
  /\ hstask[a] = "recv"
  /\ hsconn[a] = "open"
  /\ hsconn' = [hsconn EXCEPT ![a] = "closed"]
  /\ UNCHANGED <<axis_server, created, uri, handshake, hstask, hsElapsed, hsMatched,
                 calls, waiters, wire, imshow_outcome, imshow_input>>
  /\ UNCHANGED <<serverVars, ctor, connVars>>
  /\ UNCHANGED expVars

\* ---- Axis.__init__

\* A constructor that starts a server for every Axis.
CtorStarts_Always == TRUE

\* `if not state.is_running:` (line 31)
CtorStarts == ~is_running

\* Axis(): with the server running the constructor completes at once; otherwise
\* it sets state.port and calls start(), and completes when start returns.
Axis(a, p) ==
  /\ mainpc = "idle"
  /\ ~created[a]
  /\ IF ~CtorStarts
       THEN /\ AxisFields(a, port)
            /\ UNCHANGED <<serverVars, ctor>>
       ELSE /\ \E q \in ProcIds : procs[q] = "unborn"
            /\ port' = p
            /\ StartEntry(p)
            /\ ctor' = a
            /\ UNCHANGED <<process, log_thread, procs, procOut, sigterm, threads, logcfg, logfile,
                           created, handshake, uri, axis_server>>
  /\ UNCHANGED <<hstask, hsconn, hsElapsed, hsMatched, calls, waiters, wire, imshow_outcome, imshow_input>>
  /\ UNCHANGED connVars
  /\ UNCHANGED expVars

\* ------------------------------------------------------------------------
\* experimental/plot.py: the exported Axis (show) and _send_array
\* ------------------------------------------------------------------------
MaxShows    == 2   \* show() calls on the Axis
MaxTimeout  == 2   \* largest timeout argument of a direct _send_array call, in ticks
MaxInterval == 2   \* largest interval argument of a direct _send_array call, in ticks

\* The defaults of _send_array, in ticks of 0.1 s: timeout = 5 s, interval = 0.1 s.
timeout  == 50
interval == 1

\* The port argument of show(): omitted (None; 0 is falsy as well) or a number.
PortArgs == {None} \cup Ports

\* figsize = (h, w)
FigSizes == {<<512, 512>>, <<256, 512>>, <<512, 256>>}

\* `port or self.port`
PortOr(p) == IF p # None THEN p ELSE self_port

\* show lines 48-56: isinstance, ndim, figsize.
ShowCheck(x, figsize) ==
  IF ~x.ndarray THEN "TypeError"
  ELSE IF ndim(x) # 5 THEN "ValueError"
  ELSE IF figsize[2] <= 256 \/ figsize[1] <= 256 THEN "ValueError"
  ELSE "returned"

\* The coroutine object _send_array(x, uri, timeout, interval) before it runs.
NewTask(x, p, t, iv) ==
  [x |-> x, port |-> p, timeout |-> t, interval |-> iv, pc |-> "created",
   start_time |-> 0, attempts |-> 0, slept |-> 0, frames |-> <<>>]

\* Line 59: the server is launched with `--port str(self.port)`.
LaunchPort(p) == self_port

\* Axis.show(x, figsize=figsize, port=p), lines 48-73.
show(x, figsize, p) ==
  /\ Len(shows) < MaxShows
  /\ \E q \in ProcIds : procs[q] = "unborn"
  /\ show_outcome' = ShowCheck(x, figsize)
  /\ IF ShowCheck(x, figsize) = "returned"
       THEN /\ procs' = [procs EXCEPT ![FreshProc] = "alive"]
            /\ launch_port' = [launch_port EXCEPT ![FreshProc] = LaunchPort(p)]
            /\ self_process' = FreshProc
            /\ shows' = Append(shows, [arg |-> p, process |-> FreshProc,
                                       launch |-> LaunchPort(p),
                                       iframe |-> PortOr(p), ws |-> PortOr(p)])
            /\ tasks' = Append(tasks, NewTask(x, PortOr(p), timeout, interval))
       ELSE UNCHANGED <<procs, launch_port, self_process, shows, tasks>>
  /\ UNCHANGED <<self_port, now>>
  /\ UNCHANGED <<process, port, log_thread, procOut, sigterm, threads, logcfg, logfile,
                 mainpc, start_port, start_outcome, start_banner, start_launched>>
  /\ UNCHANGED <<ctorVars, connVars, axisTaskVars>>

SendIds == 1..Len(tasks)

\* A server process is alive that was launched on port p.
Listening(p) == \E q \in ProcIds : procs[q] = "alive" /\ launch_port[q] = p

\* "JSON" + json.dumps({"shape": x.shape, "dtype": x.dtype.name}), encoded.
ArrayHeader(x) == [kind |-> "header", shape |-> x.shape, dtype |-> x.dtype, bytes |-> <<>>]

\* x.tobytes()
ArrayFrame(x) == [kind |-> "array", shape |-> <<>>, dtype |-> "", bytes |-> tobytes(x)]

\* What no task step changes.
SendArrayFrame ==
  /\ UNCHANGED <<self_port, self_process, launch_port, shows, show_outcome>>
  /\ UNCHANGED <<serverVars, ctorVars, connVars, axisTaskVars>>

\* Lines 141-144: time.sleep(0.25); start_time = time.time(); the first
\* websockets.connect is awaited.
_send_array(i) ==
  /\ tasks[i].pc = "created"
  /\ \E d \in {2, 3} :
       /\ now' = now + d
       /\ tasks' = [tasks EXCEPT ![i].pc = "connect", ![i].start_time = now + d]
  /\ SendArrayFrame

\* websockets.connect succeeds: a server listens on the uri's port.
_send_array_opened(i) ==
  /\ tasks[i].pc = "connect"
  /\ Listening(tasks[i].port)
  /\ \E c \in {0, 1} : now' = now + c
  /\ tasks' = [tasks EXCEPT ![i].pc = "header"]
  /\ SendArrayFrame

\* Line 164 with `>=` in place of `>`.
Expired_AtTimeout(t, n) == n - t.start_time >= t.timeout

\* Line 164: time.time() - start_time > timeout
Expired(t, n) == n - t.start_time > t.timeout

\* ConnectionRefusedError (line 161), then the test of line 164: raise
\* TimeoutError, or time.sleep(interval) and the next websockets.connect.
_send_array_refused(i) ==
  /\ tasks[i].pc = "connect"
  /\ \E c \in {0, 1} :
       IF Expired(tasks[i], now + c)
         THEN /\ now' = now + c
              /\ tasks' = [tasks EXCEPT ![i].pc = "TimeoutError"]
         ELSE \E o \in {0, 1} :
                /\ now' = now + c + tasks[i].interval + o
                /\ tasks' = [tasks EXCEPT ![i].attempts = @ + 1,
                                          ![i].slept = tasks[i].interval + o]
  /\ SendArrayFrame

\* await websocket.send(header)
_send_array_header(i) ==
  /\ tasks[i].pc = "header"
  /\ tasks' = [tasks EXCEPT ![i].pc = "array",
                            ![i].frames = Append(@, ArrayHeader(tasks[i].x))]
  /\ UNCHANGED now
  /\ SendArrayFrame

\* await websocket.send(x.tobytes())
_send_array_tobytes(i) ==
  /\ tasks[i].pc = "array"
  /\ tasks' = [tasks EXCEPT ![i].pc = "closing",
                            ![i].frames = Append(@, ArrayFrame(tasks[i].x))]
  /\ UNCHANGED now
  /\ SendArrayFrame

\* await websocket.close(reason="Goodbye!"); break
_send_array_close(i) ==
  /\ tasks[i].pc = "closing"
  /\ tasks' = [tasks EXCEPT ![i].pc = "returned"]
  /\ UNCHANGED now
  /\ SendArrayFrame

\* An exception that is no ConnectionRefusedError (the opening handshake fails
\* or times out, the connection is closed under a send): it leaves the loop.
_send_array_error(i) ==
  /\ tasks[i].pc \in {"connect", "header", "array", "closing"}
  /\ tasks' = [tasks EXCEPT ![i].pc = "error"]
  /\ UNCHANGED now
  /\ SendArrayFrame

\* ------------------------------------------------------------------------
\* Initial states
\* ------------------------------------------------------------------------

\* No experimental Axis in use.
ExpFresh ==
  /\ self_port = None /\ self_process = None
  /\ launch_port = [q \in ProcIds |-> None]
  /\ shows = <<>> /\ show_outcome = "none" /\ tasks = <<>> /\ now = 0

\* After Axis(): self.port is a free port and self.process is None.
ExpConstructed ==
  /\ self_port \in Ports /\ self_process = None
  /\ launch_port = [q \in ProcIds |-> None]
  /\ shows = <<>> /\ show_outcome = "none" /\ tasks = <<>> /\ now = 0

\* No start() yet.
ServerFresh ==
  /\ process = None /\ port = None /\ log_thread = None
  /\ procs = [q \in ProcIds |-> "unborn"]
  /\ procOut = [q \in ProcIds |-> "none"]
  /\ sigterm = {}
  /\ threads = [q \in ProcIds |-> "none"]
  /\ logfile = [q \in ProcIds |-> "none"]
  /\ mainpc = "idle" /\ start_port = None /\ start_outcome = "none"
  /\ start_banner = FALSE /\ start_launched = 0
  /\ ctor = None

\* After one start(path, 1, dist) that read the banner.
ServerStarted ==
  /\ process = 1 /\ port = 1 /\ log_thread = 1
  /\ procs = [q \in ProcIds |-> IF q = 1 THEN "alive" ELSE "unborn"]
  /\ procOut = [q \in ProcIds |-> IF q = 1 THEN "banner" ELSE "none"]
  /\ sigterm = {}
  /\ threads = [q \in ProcIds |-> IF q = 1 THEN "running" ELSE "none"]
  /\ logfile = [q \in ProcIds |-> IF q = 1 THEN "open" ELSE "none"]
  /\ mainpc = "idle" /\ start_port = 1 /\ start_outcome = "returned"
  /\ start_banner = TRUE /\ start_launched = 1
  /\ ctor = None

\* No connect() yet; the registry is empty.
ConnFresh ==
  /\ websocket = None /\ handshake_task = None
  /\ handshakes = [t \in Tokens |-> "absent"]
  /\ ctask = [k \in TaskIds |-> "none"]
  /\ ltask = [k \in TaskIds |-> "none"]
  /\ lcancel = [k \in TaskIds |-> FALSE]
  /\ lconn = [k \in TaskIds |-> None]
  /\ conns = [k \in TaskIds |-> "unopened"]
  /\ sent = <<>> /\ send_calls = <<>>
  /\ futures = [t \in Tokens |-> 0]
  /\ lastMsg = [msg |-> NoMsg, by |-> None, was |-> "n/a", raised |-> FALSE, afterErr |-> FALSE]

AxisTasksFresh ==
  /\ hstask = [a \in Axes |-> "none"]
  /\ hsconn = [a \in Axes |-> "unopened"]
  /\ hsElapsed = [a \in Axes |-> FALSE]
  /\ hsMatched = [a \in Axes |-> FALSE]
  /\ calls = <<>> /\ waiters = <<>> /\ wire = <<>>
  /\ imshow_outcome = "none"
  /\ imshow_input = NoInput

\* No Axis yet.
AxesFresh ==
  /\ created = [a \in Axes |-> FALSE]
  /\ uri = [a \in Axes |-> None]
  /\ handshake = [a \in Axes |-> "none"]
  /\ axis_server = [a \in Axes |-> None]
  /\ AxisTasksFresh

\* The first MaxViews Axes constructed while the server of ServerStarted runs.
AxesConstructed ==
  /\ created = [a \in Axes |-> a <= MaxViews]
  /\ uri = [a \in Axes |-> IF a <= MaxViews THEN 1 ELSE None]
  /\ handshake = [a \in Axes |-> IF a <= MaxViews THEN "pending" ELSE "none"]
  /\ axis_server = [a \in Axes |-> IF a <= MaxViews THEN 1 ELSE None]
  /\ AxisTasksFresh

\* Every Axis constructed while the server of ServerStarted runs.
AxesAllConstructed ==
  /\ created = [a \in Axes |-> TRUE]
  /\ uri = [a \in Axes |-> 1]
  /\ handshake = [a \in Axes |-> "pending"]
  /\ axis_server = [a \in Axes |-> 1]
  /\ AxisTasksFresh

\* After one connect() that opened the shared connection.
ConnOpened ==
  /\ websocket = 1 /\ handshake_task = None
  /\ handshakes = [t \in Tokens |-> "absent"]
  /\ ctask = [k \in TaskIds |-> IF k = 1 THEN "done" ELSE "none"]
  /\ ltask = [k \in TaskIds |-> "none"]
  /\ lcancel = [k \in TaskIds |-> FALSE]
  /\ lconn = [k \in TaskIds |-> None]
  /\ conns = [k \in TaskIds |-> IF k = 1 THEN "open" ELSE "unopened"]
  /\ sent = <<>> /\ send_calls = <<>>
  /\ futures = [t \in Tokens |-> 0]
  /\ lastMsg = [msg |-> NoMsg, by |-> None, was |-> "n/a", raised |-> FALSE, afterErr |-> FALSE]

\* ------------------------------------------------------------------------
\* Spec: the process supervisor (start, the log relay, Axis construction)
\* ------------------------------------------------------------------------

Init == ServerFresh /\ logcfg \in LogConfigs /\ ConnFresh /\ AxesFresh /\ ExpFresh

Next ==
  \/ \E p \in Ports : start(p)
  \/ start_terminate
  \/ start_wait
  \/ start_Popen
  \/ start_select
  \/ \E q \in ProcIds : log_server_output(q)
  \/ \E q \in ProcIds : ProcExit(q)
  \/ \E a \in Axes, p \in Ports : Axis(a, p)

Spec == Init /\ [][Next]_vars

\* ------------------------------------------------------------------------
\* SpecConn: the shared connection, its listener and the registry
\* ------------------------------------------------------------------------
InitConn ==
  /\ (ServerFresh \/ ServerStarted) /\ logcfg = DefaultLogConfig /\ ConnFresh /\ AxesFresh
  /\ ExpFresh

NextConn ==
  \/ auto_connect
  \/ connect
  \/ \E k \in TaskIds : connect_begin(k)
  \/ \E k \in TaskIds : connect_opened(k)
  \/ \E k \in TaskIds : connect_refused(k)
  \/ \E k \in TaskIds : wait_for_handshake_begin(k)
  \/ \E k \in TaskIds : wait_for_handshake_connected(k)
  \/ \E k \in TaskIds : wait_for_handshake_timeout(k)
  \/ \E k \in TaskIds, m \in Msgs : wait_for_handshake_recv(k, m)
  \/ \E k \in TaskIds : wait_for_handshake_closed(k)
  \/ \E k \in TaskIds : wait_for_handshake_cancelled(k)
  \/ \E t \in Tokens : register(t)
  \/ \E k \in TaskIds : ConnClosed(k)

SpecConn == InitConn /\ [][NextConn]_vars

\* ------------------------------------------------------------------------
\* SpecAxis: handshake wait, imshow and the send tasks of constructed Axes
\* ------------------------------------------------------------------------
InitAxis ==
  ServerStarted /\ logcfg = DefaultLogConfig /\ ConnFresh /\ AxesConstructed /\ ExpFresh

NextAxis ==
  \/ \E a \in Axes, x \in Inputs : imshow(a, x)
  \/ \E i \in CallIds : _send_view_connected(i)
  \/ \E i \in CallIds : _send_view_refused(i)
  \/ \E i \in CallIds : _send_view_resume(i)
  \/ \E i \in CallIds : _send_view_binary(i)
  \/ \E i \in CallIds : _send_view_close(i)
  \/ \E i \in CallIds : SendConnClosed(i)
  \/ \E a \in Axes : _wait_for_handshake(a)
  \/ \E a \in Axes : _handshake_connected(a)
  \/ \E a \in Axes : _handshake_refused(a)
  \/ \E a \in Axes, m \in Msgs : _handshake_recv(a, m)
  \/ \E a \in Axes : _handshake_recv_error(a)
  \/ \E a \in Axes : _handshake_close(a)
  \/ \E a \in Axes : _handshake_timeout(a)
  \/ \E a \in Axes : HsConnClosed(a)
  \/ \E q \in ProcIds : ProcExit(q)

SpecAxis == InitAxis /\ [][NextAxis]_vars

\* ------------------------------------------------------------------------
\* SpecSend: connect and send_message on the shared connection
\* ------------------------------------------------------------------------
NextSend ==
  \/ connect
  \/ \E k \in TaskIds : connect_begin(k)
  \/ \E k \in TaskIds : connect_opened(k)
  \/ \E k \in TaskIds : connect_refused(k)
  \/ \E k \in TaskIds : ConnClosed(k)
  \/ \E f \in Frames : send_message(f)
  \/ \E q \in ProcIds : ProcExit(q)

SpecSend == InitConn /\ [][NextSend]_vars

\* ------------------------------------------------------------------------
\* SpecClose: the exit-time teardown of a session with a server and a listener
\* ------------------------------------------------------------------------
NextClose ==
  \/ auto_connect
  \/ \E k \in TaskIds : connect_begin(k)
  \/ \E k \in TaskIds : connect_opened(k)
  \/ \E k \in TaskIds : connect_refused(k)
  \/ \E k \in TaskIds : wait_for_handshake_begin(k)
  \/ \E k \in TaskIds : wait_for_handshake_connected(k)
  \/ \E k \in TaskIds : wait_for_handshake_timeout(k)
  \/ \E k \in TaskIds : wait_for_handshake_closed(k)
  \/ \E k \in TaskIds : wait_for_handshake_cancelled(k)
  \/ \E k \in TaskIds : ConnClosed(k)
  \/ \E q \in ProcIds : ProcExit(q)
  \/ \E q \in ProcIds : log_server_output(q)
  \/ _close
  \/ _close_wait
  \/ _close_join

SpecClose == InitConn /\ [][NextClose]_vars

\* ------------------------------------------------------------------------
\* SpecAxes: the tasks of several Axes side by side, valid arrays only
\* ------------------------------------------------------------------------
InitAxes ==
  ServerStarted /\ logcfg = DefaultLogConfig /\ ConnOpened /\ AxesAllConstructed /\ ExpFresh

NextAxes ==
  \/ \E a \in Axes, x \in ValidArrays : imshow(a, x)
  \/ \E i \in CallIds : _send_view_connected(i)
  \/ \E i \in CallIds : _send_view_refused(i)
  \/ \E i \in CallIds : _send_view_resume(i)
  \/ \E i \in CallIds : _send_view_binary(i)
  \/ \E i \in CallIds : _send_view_close(i)
  \/ \E i \in CallIds : SendConnClosed(i)
  \/ \E a \in Axes : _wait_for_handshake(a)
  \/ \E a \in Axes : _handshake_connected(a)
  \/ \E a \in Axes : _handshake_refused(a)
  \/ \E a \in Axes, m \in Msgs : _handshake_recv(a, m)
  \/ \E a \in Axes : _handshake_recv_error(a)
  \/ \E a \in Axes : _handshake_close(a)
  \/ \E a \in Axes : _handshake_timeout(a)
  \/ \E a \in Axes : HsConnClosed(a)

SpecAxes == InitAxes /\ [][NextAxes]_vars

\* ------------------------------------------------------------------------
\* SpecListen: listeners from auto_connect and from direct calls
\* ------------------------------------------------------------------------
NextListen ==
  \/ auto_connect
  \/ wait_for_handshake_other
  \/ \E k \in TaskIds : other_done(k)
  \/ \E k \in TaskIds : connect_begin(k)
  \/ \E k \in TaskIds : connect_opened(k)
  \/ \E k \in TaskIds : connect_refused(k)
  \/ \E k \in TaskIds : wait_for_handshake_begin(k)
  \/ \E k \in TaskIds : wait_for_handshake_connected(k)
  \/ \E k \in TaskIds : wait_for_handshake_timeout(k)
  \/ \E k \in TaskIds, m \in Msgs : wait_for_handshake_recv(k, m)
  \/ \E k \in TaskIds : wait_for_handshake_closed(k)
  \/ \E k \in TaskIds : wait_for_handshake_cancelled(k)
  \/ \E k \in TaskIds : ConnClosed(k)

SpecListen == InitConn /\ [][NextListen]_vars

\* ------------------------------------------------------------------------
\* SpecImshow: the checks of imshow over arrays of every element type
\* ------------------------------------------------------------------------
NextImshow ==
  \/ \E a \in Axes, x \in ProbeArrays \cup Inputs : imshow(a, x)
  \/ \E a \in Axes : _wait_for_handshake(a)
  \/ \E a \in Axes : _handshake_connected(a)
  \/ \E a \in Axes, m \in Msgs : _handshake_recv(a, m)
  \/ \E a \in Axes : _handshake_timeout(a)
  \/ \E q \in ProcIds : ProcExit(q)

SpecImshow == InitAxis /\ [][NextImshow]_vars

\* ------------------------------------------------------------------------
\* SpecRestart: imshow on an Axis while servers exit and later Axes are made
\* ------------------------------------------------------------------------
NextRestart ==
  \/ \E a \in Axes, x \in ValidArrays : imshow(a, x)
  \/ \E i \in CallIds : _send_view_connected(i)
  \/ \E i \in CallIds : _send_view_resume(i)
  \/ \E i \in CallIds : _send_view_binary(i)
  \/ \E a \in Axes : _wait_for_handshake(a)
  \/ \E a \in Axes : _handshake_connected(a)
  \/ \E a \in Axes, m \in Msgs : _handshake_recv(a, m)
  \/ \E q \in ProcIds : ProcExit(q)
  \/ \E a \in Axes, p \in Ports : Axis(a, p)
  \/ start_terminate
  \/ start_wait
  \/ start_Popen
  \/ start_select

SpecRestart == InitAxis /\ [][NextRestart]_vars

\* ------------------------------------------------------------------------
\* SpecShow: show() calls on one exported Axis, and its processes exiting
\* ------------------------------------------------------------------------
InitShow == ServerFresh /\ logcfg = DefaultLogConfig /\ ConnFresh /\ AxesFresh /\ ExpConstructed

NextShow ==
  \/ \E x \in Inputs, figsize \in FigSizes, p \in PortArgs : show(x, figsize, p)
  \/ \E q \in ProcIds : ProcExit(q)

SpecShow == InitShow /\ [][NextShow]_vars

\* ------------------------------------------------------------------------
\* SpecSendArray: one _send_array task from its creation to its end
\* ------------------------------------------------------------------------
Timeouts  == {timeout} \cup (1..MaxTimeout)
Intervals == {interval} \cup (1..MaxInterval)

\* After Axis().show(x, port=a): one server process, launched on self.port, and
\* one task; the task's timeout and interval also range over small values, as
\* in a direct call _send_array(x, uri, timeout, interval).
InitSendArray ==
  /\ process = None /\ port = None /\ log_thread = None
  /\ procs = [q \in ProcIds |-> IF q = 1 THEN "alive" ELSE "unborn"]
  /\ procOut = [q \in ProcIds |-> "none"]
  /\ sigterm = {}
  /\ threads = [q \in ProcIds |-> "none"]
  /\ logfile = [q \in ProcIds |-> "none"]
  /\ mainpc = "idle" /\ start_port = None /\ start_outcome = "none"
  /\ start_banner = FALSE /\ start_launched = 0
  /\ ctor = None
  /\ logcfg = DefaultLogConfig /\ ConnFresh /\ AxesFresh
  /\ self_port \in Ports /\ self_process = 1
  /\ launch_port = [q \in ProcIds |-> IF q = 1 THEN self_port ELSE None]
  /\ show_outcome = "returned" /\ now = 0
  /\ \E x \in ValidArrays, a \in PortArgs, t \in Timeouts, iv \in Intervals :
       /\ shows = <<[arg |-> a, process |-> 1, launch |-> self_port,
                     iframe |-> PortOr(a), ws |-> PortOr(a)]>>
       /\ tasks = <<NewTask(x, PortOr(a), t, iv)>>

\* A step of some _send_array task.
SendArrayStep ==
  \E i \in SendIds :
    \/ _send_array(i) \/ _send_array_opened(i) \/ _send_array_refused(i)
    \/ _send_array_header(i) \/ _send_array_tobytes(i) \/ _send_array_close(i)
    \/ _send_array_error(i)

NextSendArray ==
  \/ \E i \in SendIds : _send_array(i)
  \/ \E i \in SendIds : _send_array_opened(i)
  \/ \E i \in SendIds : _send_array_refused(i)
  \/ \E i \in SendIds : _send_array_header(i)
  \/ \E i \in SendIds : _send_array_tobytes(i)
  \/ \E i \in SendIds : _send_array_close(i)
  \/ \E i \in SendIds : _send_array_error(i)
  \/ \E q \in ProcIds : ProcExit(q)

\* The event loop runs a task that can step: weak fairness on the task steps.
SpecSendArray == InitSendArray /\ [][NextSendArray]_vars /\ WF_vars(SendArrayStep)

\* ------------------------------------------------------------------------
\* Claims checked under Spec
\* ------------------------------------------------------------------------

(* C1: at most one server process launched by start is alive at any time; when
   start reaches the launch with a process tracked, that process was sent
   SIGTERM and its exit was observed. *)
C1_AtMostOneLiveServer ==
  /\ Cardinality({q \in ProcIds : procs[q] = "alive"}) <= 1
  /\ (mainpc = "popen" /\ process # None) =>
       (process \in sigterm /\ procs[process] = "exited")

\* A second server runs after start terminated the first and saw it exit.
C1_Witness ==
  \E q \in ProcIds :
    /\ q \in sigterm /\ procs[q] = "exited"
    /\ process # None /\ process # q /\ procs[process] = "alive"

(* C4: start returns the process only when the banner line was read; in every
   other case it fails with the timeout error; one call launches exactly one
   process. *)
C4_ReturnsOnlyOnBanner ==
  /\ start_outcome = "returned" => start_banner
  /\ start_outcome = "TimeoutError" => ~start_banner
  /\ start_outcome # "none" => start_launched = 1

\* ------------------------------------------------------------------------
\* Claims checked under SpecConn
\* ------------------------------------------------------------------------

(* C5: at most one connection opened by connect() is open at a time. *)
C5_AtMostOneOpenConnection ==
  Cardinality({k \in TaskIds : conns[k] = "open"}) <= 1

\* A listener that can still run its own code: not finished and not cancelled.
ListenerActive(k) == ListenerPending(k) /\ ~lcancel[k]

HandshakeMsg(m) == m.json = "object" /\ {"hash", "connected"} \subseteq m.fields

(* C8 as stated: every inbound message that carries both fields leaves the
   registry future of its token resolved with the message's connected value. *)
C8_EveryMessageResolves ==
  [][(lastMsg' # lastMsg /\ HandshakeMsg(lastMsg'.msg)) =>
       handshakes'[lastMsg'.msg.hash] = FutResult(lastMsg'.msg.connected)]_vars

(* C8 amended: a message that carries both fields and whose token has no entry
   or a pending one leaves that token's future resolved with the message's
   connected value (a new entry is created resolved); a message for a token
   already resolved leaves the result as it was; no other token changes. *)
C8_FirstMessageResolves ==
  [][(lastMsg' # lastMsg /\ HandshakeMsg(lastMsg'.msg)) =>
       LET m == lastMsg'.msg IN
       /\ handshakes[m.hash] \in {"absent", "pending"} =>
            handshakes'[m.hash] = FutResult(m.connected)
       /\ handshakes[m.hash] \in {"true", "false"} =>
            handshakes'[m.hash] = handshakes[m.hash]
       /\ \A t \in Tokens \ {m.hash} : handshakes'[t] = handshakes[t]]_vars

\* A notification arrived for a token nobody had registered, and is kept.
C8_Witness ==
  /\ HandshakeMsg(lastMsg.msg)
  /\ lastMsg.was = "absent"
  /\ handshakes[lastMsg.msg.hash] = FutResult(lastMsg.msg.connected)

\* Listener k runs one pass of its loop (not a cancellation).
ListenerStep(k) ==
  /\ ltask[k] = "recv" /\ ~lcancel[k]
  /\ \/ ltask'[k] # ltask[k]
     \/ lconn'[k] # lconn[k]
     \/ lastMsg' # lastMsg /\ lastMsg'.by = k

(* C9: a pass of the listener loop never ends the loop while the shared
   connection is open, whatever the message did (malformed, no fields,
   duplicate); a valid notification handled right after a message that raised
   still resolves its token; the loop ends when the shared connection is
   closed. *)
C9_LoopSurvivesErrors ==
  [][\A k \in TaskIds : ListenerStep(k) =>
       /\ ltask'[k] = IF conns[websocket] = "closed" THEN "ended" ELSE "recv"
       /\ (/\ lastMsg' # lastMsg /\ lastMsg'.afterErr
           /\ HandshakeMsg(lastMsg'.msg)
           /\ handshakes[lastMsg'.msg.hash] \in {"absent", "pending"}) =>
            handshakes'[lastMsg'.msg.hash] = FutResult(lastMsg'.msg.connected)]_vars

\* After a message that raised, the same listener handled a valid notification
\* for an unresolved token and is still in its loop.
C9_Witness ==
  /\ lastMsg.afterErr
  /\ HandshakeMsg(lastMsg.msg) /\ lastMsg.was \in {"absent", "pending"}
  /\ handshakes[lastMsg.msg.hash] = FutResult(lastMsg.msg.connected)
  /\ lastMsg.by # None /\ ltask[lastMsg.by] = "recv"

\* ------------------------------------------------------------------------
\* Claims checked under SpecAxis
\* ------------------------------------------------------------------------

\* The frames sent for call i, in send order (each send task has its own connection).
FramesOf(i) == SelectSeq(wire, LAMBDA f : f.conn = i)

(* C2: the frames of one Axis are sent in the order of its imshow calls: no
   frame of a later call is sent before a frame of an earlier call. *)
C2_FramesInCallOrder ==
  \A n, m \in DOMAIN wire :
    (n < m /\ calls[wire[n].conn].axis = calls[wire[m].conn].axis) =>
      wire[n].conn <= wire[m].conn

(* C3: a frame is sent for an Axis only once its handshake future is resolved
   with true: none while it is pending, none when it failed; a call sends at
   most the header and then the binary frame, and a send that completed sent
   exactly those two. *)
C3_NoFrameBeforeHandshake ==
  \A i \in CallIds :
    /\ FramesOf(i) # <<>> => handshake[calls[i].axis] = "true"
    /\ calls[i].st \in {"connecting", "await_hs"} => FramesOf(i) = <<>>
    /\ Len(FramesOf(i)) <= 2
    /\ \A n \in DOMAIN FramesOf(i) : FramesOf(i)[n].kind = <<"header", "binary">>[n]
    /\ calls[i].st = "returned_true" => Len(FramesOf(i)) = 2

\* An imshow issued while the handshake was pending has sent its two frames.
C3_Witness ==
  \E i \in CallIds :
    calls[i].early /\ calls[i].st = "returned_true" /\ Len(FramesOf(i)) = 2

(* C7: the handshake wait resolves the future to true when the Axis's own
   notification arrives within the timeout, and the future fails only with the
   timeout error, once the timeout has elapsed. *)
C7_FailsOnlyByTimeout ==
  \A a \in Axes :
    /\ hsMatched[a] => handshake[a] = "true"
    /\ Failed(handshake[a]) => (handshake[a] = "TimeoutError" /\ hsElapsed[a])

\* numpy.frombuffer: n-byte little-endian elements read back as integers.
RECURSIVE LEValue(_)
LEValue(bs) == IF bs = <<>> THEN 0 ELSE Head(bs) + 256 * LEValue(Tail(bs))

RECURSIVE Pow256(_)
Pow256(n) == IF n = 0 THEN 1 ELSE 256 * Pow256(n - 1)

Signed(dt) == dt \in {"int8", "int16", "int32"}

Element(bs, dt) ==
  IF Signed(dt) /\ 2 * LEValue(bs) >= Pow256(Len(bs))
    THEN LEValue(bs) - Pow256(Len(bs))
    ELSE LEValue(bs)

frombuffer(bs, dt) ==
  [n \in 1..(Len(bs) \div ItemSize(dt)) |->
     Element(SubSeq(bs, (n - 1) * ItemSize(dt) + 1, n * ItemSize(dt)), dt)]

RECURSIVE Product(_)
Product(sh) == IF sh = <<>> THEN 1 ELSE Head(sh) * Product(Tail(sh))

(* C10: a send that completed sent, on its connection, exactly one header frame
   and then exactly one binary frame; the header carries the Axis's token, the
   array's axis lengths and its element type name; the binary frame is the
   token's bytes followed by the array's bytes. *)
C10_HeaderThenBinary ==
  \A i \in CallIds : calls[i].st = "returned_true" =>
    LET fs == FramesOf(i)
        x == calls[i].x
        tok == HashText(calls[i].axis)
    IN /\ Len(fs) = 2
       /\ fs[1].kind = "header" /\ fs[2].kind = "binary"
       /\ fs[1].header.hash = tok
       /\ fs[1].header.shape = x.shape /\ Len(fs[1].header.shape) = 5
       /\ fs[1].header.dtype = x.dtype
       /\ Len(fs[2].bytes) = Len(tok) + Product(x.shape) * ItemSize(x.dtype)
       /\ SubSeq(fs[2].bytes, 1, Len(tok)) = Encode(tok)
       /\ frombuffer(SubSeq(fs[2].bytes, Len(tok) + 1, Len(fs[2].bytes)), x.dtype) = x.data

\* Two sends completed, one of them of an array of two-byte signed elements.
C10_Witness ==
  \E i, j \in CallIds :
    /\ i # j /\ calls[i].st = "returned_true" /\ calls[j].st = "returned_true"
    /\ calls[i].x.dtype = "int16" /\ calls[j].x.dtype = "uint8"

\* A step that is an imshow call (seen through the history of its input and outcome).
ImshowStep == imshow_input' # imshow_input \/ imshow_outcome' # imshow_outcome

(* C11: an imshow call with an array whose rank is not 5 ends in a validation
   error (TypeError or ValueError) within the call: no send task is created, no
   frame is sent, and the handshake futures, the Axes and the server state are
   as before the call. *)
C11_RankRejectedSynchronously ==
  [][(ImshowStep /\ imshow_input'.ndarray /\ ndim(imshow_input') # 5) =>
       /\ imshow_outcome' \in {"TypeError", "ValueError"}
       /\ UNCHANGED <<calls, waiters, wire, handshake, created, uri,
                      hstask, hsconn, hsElapsed, hsMatched>>
       /\ UNCHANGED <<serverVars, ctor, connVars>>]_vars

\* An array of rank 4 or 6 was rejected while sends of earlier calls were under way.
C11_Witness ==
  /\ imshow_input.ndarray /\ ndim(imshow_input) # 5
  /\ imshow_outcome = "ValueError"
  /\ calls # <<>> /\ wire # <<>>

\* ------------------------------------------------------------------------
\* Claims checked under SpecImshow
\* ------------------------------------------------------------------------

(* C12: imshow fails with the element-type validation error exactly when the
   array's element type is not a signed integer, unsigned integer or floating
   point type of at most 32 bits. *)
C12_RejectsExactlyOutsideList ==
  imshow_input.ndarray =>
    (imshow_outcome = "TypeError" <=> ~SupportedByMessage(imshow_input.dtype))

\* ------------------------------------------------------------------------
\* Claims checked under SpecSend
\* ------------------------------------------------------------------------

\* The calls that did not raise, in call order.
SendsDone == SelectSeq(send_calls, LAMBDA c : c.outcome = "sent")

(* C13: send_message raises the not-open error, and writes nothing, exactly when
   no shared connection is stored or the stored one is closed; otherwise it
   writes exactly its frame on the shared connection; the frames written are
   those of the calls that did not raise, in call order. *)
C13_SendOnlyWhenOpen ==
  /\ \A n \in DOMAIN send_calls :
       send_calls[n].outcome = "RuntimeError" <=> send_calls[n].state \in {"none", "closed"}
  /\ Len(sent) = Len(SendsDone)
  /\ \A n \in DOMAIN sent :
       sent[n].frame = SendsDone[n].frame /\ sent[n].conn = SendsDone[n].ws

\* Two different frames were written in call order, then the connection closed
\* and the next call raised.
C13_Witness ==
  /\ Len(send_calls) = 3 /\ Len(sent) = 2
  /\ sent[1].frame # sent[2].frame
  /\ send_calls[3].outcome = "RuntimeError" /\ send_calls[3].state = "closed"

(* C14: a connect() that begins while no server process is running (none
   tracked, or the tracked one has exited) fails and leaves state.websocket
   unchanged. *)
C14_ConnectNeedsRunningServer ==
  [][\A k \in TaskIds :
       (ctask[k] = "created" /\ ctask'[k] # "created" /\ ~is_running) =>
         (ctask'[k] = "failed" /\ websocket' = websocket)]_vars

\* ------------------------------------------------------------------------
\* Claims checked under SpecClose
\* ------------------------------------------------------------------------

(* C15: once the exit-time teardown has run, the tracked server process has
   exited, the log relay thread has finished, the shared connection is closed,
   and a listener task that is not done has been cancelled. *)
C15_TeardownReleasesAll ==
  mainpc = "closed" =>
    /\ process # None => procs[process] = "exited"
    /\ log_thread # None => threads[log_thread] = "finished"
    /\ websocket # None => conns[websocket] = "closed"
    /\ (handshake_task # None /\ ListenerPending(handshake_task)) => lcancel[handshake_task]

\* ------------------------------------------------------------------------
\* Claims checked under Spec (logging configurations)
\* ------------------------------------------------------------------------

(* C16: in every logging configuration under which start launches the relay, a
   relay that has ended has ended by returning, after flushing and closing the
   log file it opened. *)
C16_RelayEndsCleanly ==
  \A q \in ProcIds :
    threads[q] \notin {"none", "running"} =>
      (threads[q] = "finished" /\ logfile[q] # "open")

\* ------------------------------------------------------------------------
\* Claims checked under SpecAxes
\* ------------------------------------------------------------------------

SendFailed(c) == c.st \in {"returned_false", "crashed"}

\* A step in which Axis a's handshake fails, its handshake task ends with an
\* error, or one of its send tasks fails.
AxisFailStep(a) ==
  \/ ~Failed(handshake[a]) /\ Failed(handshake'[a])
  \/ hstask[a] # "crashed" /\ hstask'[a] = "crashed"
  \/ \E i \in CallIds :
       calls[i].axis = a /\ ~SendFailed(calls[i]) /\ SendFailed(calls'[i])

\* Axis b's own notification.
Notification(b) == [json |-> "object", fields |-> {"hash", "connected"}, hash |-> b, connected |-> TRUE]

(* C17: a step in which one Axis's handshake or send fails leaves the handshake
   future, the handshake task and the send tasks of every other Axis, the frames
   sent so far, the tracked server process and the shared connection as they
   were; and while one Axis has failed, another Axis whose handshake task is
   reading can still take its notification, and a send task of another Axis
   that holds the header can still send its binary frame. *)
C17_FailureConfinedToAxis ==
  [][\A a \in Axes :
       /\ AxisFailStep(a) =>
            /\ \A b \in Axes \ {a} :
                 /\ handshake'[b] = handshake[b]
                 /\ hstask'[b] = hstask[b] /\ hsconn'[b] = hsconn[b]
                 /\ \A i \in CallIds : calls[i].axis = b => calls'[i] = calls[i]
            /\ wire' = wire
            /\ UNCHANGED <<process, procs, websocket, conns>>
       /\ Failed(handshake[a]) =>
            /\ \A b \in Axes \ {a} :
                 (hstask[b] = "recv" /\ hsconn[b] = "open") =>
                   ENABLED _handshake_recv(b, Notification(b))
            /\ \A i \in CallIds :
                 (calls[i].axis # a /\ calls[i].st = "header_sent" /\ calls[i].conn = "open") =>
                   ENABLED _send_view_binary(i)]_vars

\* Axis 1's handshake failed and one of its sends failed; Axis 2 completed its
\* handshake and a send, and the shared connection is open.
C17_Witness ==
  /\ Failed(handshake[1])
  /\ \E i \in CallIds : calls[i].axis = 1 /\ SendFailed(calls[i])
  /\ handshake[2] = "true"
  /\ \E i \in CallIds : calls[i].axis = 2 /\ calls[i].st = "returned_true"
  /\ websocket # None /\ conns[websocket] = "open"

\* ------------------------------------------------------------------------
\* Claims checked under SpecConn (the registry)
\* ------------------------------------------------------------------------

(* C18: the registry only grows: no step removes a token's entry; no token ever
   has a second future stored for it; and a future that is resolved keeps its
   result whatever message for its token comes later. *)
C18_RegistryOnlyGrows ==
  [][\A t \in Tokens :
       /\ handshakes[t] # "absent" => handshakes'[t] # "absent"
       /\ handshakes[t] \in {"true", "false"} => handshakes'[t] = handshakes[t]
       /\ futures'[t] >= futures[t] /\ futures'[t] <= 1
       /\ (handshakes'[t] = "absent") = (futures'[t] = 0)]_vars

\* A notification with the other value came for a token already resolved with
\* true, and the result is still true.
C18_Witness ==
  /\ HandshakeMsg(lastMsg.msg) /\ lastMsg.was = "true" /\ ~lastMsg.msg.connected
  /\ handshakes[lastMsg.msg.hash] = "true"
  /\ futures[lastMsg.msg.hash] = 1

\* ------------------------------------------------------------------------
\* Claims checked under SpecListen
\* ------------------------------------------------------------------------

(* C19: the listener reads only after the task it waits for has completed:
   without a tracked process it fails at once; it fails with the timeout only
   while that task is not complete; when the task has completed and no
   websocket client is stored it fails with the not-connected error; it enters
   the receive loop, and handles a message, only with a process tracked, the
   task completed and a websocket client stored. *)
C19_ReadsOnlyAfterConnect ==
  [][\A k \in TaskIds :
       /\ (ltask[k] = "created" /\ ltask'[k] \notin {"created", "cancelled"}) =>
            ltask'[k] = IF process = None THEN "failed_notrunning" ELSE "waitconn"
       /\ (ltask[k] # "failed_timeout" /\ ltask'[k] = "failed_timeout") =>
            (ltask[k] = "waitconn" /\ ctask[k] \notin {"done", "failed"})
       /\ (ltask[k] = "waitconn" /\ ltask'[k] \notin {"waitconn", "cancelled"}
             /\ ctask[k] = "done" /\ websocket = None) =>
            ltask'[k] = "failed_notconnected"
       /\ (ltask[k] # "recv" /\ ltask'[k] = "recv") =>
            (ltask[k] = "waitconn" /\ ctask[k] = "done" /\ process # None /\ websocket # None)
       /\ ltask[k] = "recv" => (ctask[k] = "done" /\ lconn[k] # None)
       /\ (lastMsg' # lastMsg /\ lastMsg'.by = k) => ctask[k] = "done"]_vars

\* One listener failed with the not-connected error, another one is reading.
C19_Witness ==
  \E j, k \in TaskIds :
    /\ ltask[j] = "failed_notconnected"
    /\ ltask[k] = "recv" /\ ctask[k] = "done" /\ lastMsg.by = k

\* ------------------------------------------------------------------------
\* Claims checked under Spec (Axis construction)
\* ------------------------------------------------------------------------

\* The server processes launched so far.
Launched == {q \in ProcIds : procs[q] # "unborn"}

(* C20: an Axis constructor calls start exactly when no server process is
   running; as long as no server process has exited, the Axes constructed share
   one launched server process and each Axis's uri carries state.port. *)
C20_OneServerForAllAxes ==
  [][/\ \A a \in Axes : (ctor = None /\ ctor' = a) => ~is_running
     /\ \A a \in Axes : (~created[a] /\ created'[a] /\ ctor = None) => is_running
     /\ ((\A q \in ProcIds : procs'[q] # "exited") /\ (\E a \in Axes : created'[a])) =>
          /\ Cardinality(Launched') = 1
          /\ \A a \in Axes : created'[a] => uri'[a] = port']_vars

\* Two Axes constructed, the first of which started the one server, still alive.
C20_Witness ==
  /\ \A a \in Axes : created[a]
  /\ Cardinality(Launched) = 1 /\ is_running
  /\ start_outcome = "returned" /\ start_launched = 1
  /\ \A a \in Axes : uri[a] = port

\* ------------------------------------------------------------------------
\* Claims checked under SpecAxis (the handshake task's messages)
\* ------------------------------------------------------------------------

\* m is a notification carrying Axis a's own token with connected true.
OwnNotification(a, m) ==
  /\ m.json = "object" /\ {"hash", "connected"} \subseteq m.fields
  /\ m.hash = a /\ m.connected

(* C21: a message read by an Axis's handshake task that is not the Axis's own
   notification (another token, connected false, or no valid JSON) leaves the
   Axis's handshake future as it was; and the Axis's own notification, read
   before the timeout has elapsed, leaves the future resolved to true. *)
C21_OnlyOwnNotificationCounts ==
  [][\A a \in Axes, m \in Msgs :
       _handshake_recv(a, m) =>
         IF OwnNotification(a, m)
           THEN ~hsElapsed[a] => handshake'[a] = "true"
           ELSE handshake'[a] = handshake[a]]_vars

\* ------------------------------------------------------------------------
\* Claims checked under SpecAxis (how a send task ends)
\* ------------------------------------------------------------------------

(* C23: a send task never ends with an unhandled exception; one that failed
   has returned False, and then its Axis's handshake future is failed, so that
   the next imshow call on the Axis raises the handshake RuntimeError. *)
C23_SendFailsByReturningFalse ==
  \A i \in CallIds :
    /\ calls[i].st # "crashed"
    /\ calls[i].st = "returned_false" =>
         /\ Failed(handshake[calls[i].axis])
         /\ \A x \in ValidArrays :
              procs[process] = "alive" =>
                ImshowCheck(calls[i].axis, x) = "RuntimeError_handshake"

\* ------------------------------------------------------------------------
\* Claims checked under Spec (after a start() that timed out)
\* ------------------------------------------------------------------------

(* C24: when start() ends with its TimeoutError, state.is_running is false
   afterwards, and the next Axis construction, made in that state, calls
   start() to launch a fresh server and does not complete on the process that
   never wrote its banner. *)
C24_TimeoutLeavesNoServer ==
  [][/\ (start_select /\ start_outcome' = "TimeoutError") => ~is_running'
     /\ \A a \in Axes, p \in Ports :
          (start_outcome = "TimeoutError" /\ Axis(a, p)) => ctor' = a]_vars

\* ------------------------------------------------------------------------
\* Claims checked under SpecRestart
\* ------------------------------------------------------------------------

RuntimeErrors == {"RuntimeError_server", "RuntimeError_handshake"}

(* C22 as stated: an imshow call schedules a send task only when the tracked
   server process is alive and the Axis's handshake future has not failed; and
   once the server the Axis was made under has exited, or the future has
   failed, every imshow call on the Axis with a valid array raises
   RuntimeError, schedules nothing and sends nothing. *)
C22_RefusedEverAfter ==
  [][\A a \in Axes, x \in ValidArrays :
       imshow(a, x) =>
         /\ imshow_outcome' = "scheduled" =>
              (procs[process] = "alive" /\ ~Failed(handshake[a]))
         /\ (procs[axis_server[a]] = "exited" \/ Failed(handshake[a])) =>
              /\ imshow_outcome' \in RuntimeErrors
              /\ UNCHANGED <<calls, waiters, wire>>]_vars

(* C22, amended: an imshow call schedules a send task only when the tracked
   server process is alive and the Axis's handshake future has not failed; a
   call made while the tracked server process is not alive, or after the
   future has failed, raises RuntimeError, schedules nothing and sends nothing;
   and a failed handshake future stays failed. *)
C22_RefusedWhileDown ==
  [][/\ \A a \in Axes, x \in ValidArrays :
          imshow(a, x) =>
            /\ imshow_outcome' = "scheduled" =>
                 (procs[process] = "alive" /\ ~Failed(handshake[a]))
            /\ (procs[process] # "alive" \/ Failed(handshake[a])) =>
                 /\ imshow_outcome' \in RuntimeErrors
                 /\ UNCHANGED <<calls, waiters, wire>>
     /\ \A a \in Axes : Failed(handshake[a]) => handshake'[a] = handshake[a]]_vars

\* An imshow call was refused because the server had exited, with a send task
\* of an earlier call still under way.
C22_Witness ==
  /\ imshow_outcome = "RuntimeError_server"
  /\ procs[process] = "exited"
  /\ \E i \in CallIds : i <= Len(calls) /\ calls[i].st = "connecting"

\* ------------------------------------------------------------------------
\* Claims checked under SpecSendArray
\* ------------------------------------------------------------------------

Ended(t) == t.pc \in {"returned", "TimeoutError", "error"}

(* C25: every _send_array task ends; it retries only after a refused
   connection and then sleeps at least its interval first; when it returns it
   has sent the header frame and then the array frame, once each; when it
   raises TimeoutError it has sent nothing and more than `timeout` has elapsed
   since its start time; it never sends more than those two frames; and any
   other error ends it in that step, without another attempt. *)
C25_RetryLoopEnds ==
  /\ <>(\A i \in SendIds : Ended(tasks[i]))
  /\ [](\A i \in SendIds :
          LET t == tasks[i] IN
          /\ t.pc = "returned" => t.frames = <<ArrayHeader(t.x), ArrayFrame(t.x)>>
          /\ t.pc = "TimeoutError" =>
               (t.frames = <<>> /\ now - t.start_time > t.timeout)
          /\ Len(t.frames) <= 2
          /\ t.attempts > 0 => t.slept >= t.interval)
  /\ [][\A i \in SendIds :
          /\ tasks'[i].attempts # tasks[i].attempts =>
               (_send_array_refused(i) /\ now' - now >= tasks[i].interval)
          /\ _send_array_error(i) =>
               (Ended(tasks'[i]) /\ tasks'[i].attempts = tasks[i].attempts)
          /\ Ended(tasks[i]) => tasks'[i] = tasks[i]]_vars

\* A task was refused at least twice, then connected and sent both frames.
C25_Witness ==
  \E i \in SendIds :
    /\ tasks[i].pc = "returned" /\ tasks[i].attempts >= 2
    /\ tasks[i].frames = <<ArrayHeader(tasks[i].x), ArrayFrame(tasks[i].x)>>

\* ------------------------------------------------------------------------
\* Claims checked under SpecShow
\* ------------------------------------------------------------------------

\* The server processes launched by the Axis's show() calls.
ShowLaunched == {shows[k].process : k \in DOMAIN shows}

(* C26: at most one server process launched by the Axis's show() calls is
   alive at any time, and a show() that launches a server while self.process
   is running leaves that earlier process no longer running. *)
C26_AtMostOneShownServer ==
  [][/\ Cardinality({q \in ShowLaunched' : procs'[q] = "alive"}) <= 1
     /\ (self_process # None /\ self_process' # self_process) =>
          procs'[self_process] # "alive"]_vars

(* C27: for every show() call that launched a server, whatever its port
   argument, the port the server was launched on, the port in the iframe uri
   and the port in the websocket uri given to _send_array are the same. *)
C27_OnePortPerShow ==
  \A k \in DOMAIN shows :
    /\ shows[k].launch = shows[k].iframe
    /\ shows[k].iframe = shows[k].ws
    /\ tasks[k].port = shows[k].launch

====
